---- MODULE Spec2Model ----
(***************************************************************************)
(* Data-shaping pipeline of the cybersecurity dashboard: the comparison    *)
(* views of ComparisonChart (grouping, top/bottom-K, custom selection),    *)
(* the filter engine of InteractiveFilters, and the region aggregation of  *)
(* TrendAnalysis and ClusteringVisualization.                              *)
(*                                                                         *)
(* JavaScript numbers are modelled as exact fixed-point integers: the      *)
(* number x is the integer x * Fx.  A missing (undefined/null) numeric     *)
(* field is NULL.  A mean is the exact fraction [num, den].                *)
(***************************************************************************)
EXTENDS Integers, Sequences, FiniteSets, TLC

\* ------------------------------------------------------------------------
\* Numbers
\* ------------------------------------------------------------------------

\* fixed-point units per 1.0 (four decimals of the raw 0..1 scores)
Fx == 10000

\* an undefined / null numeric field of a record
NULL == -1

\* JS `x || 0` on a numeric field: a missing value (and 0 itself) gives 0
OrZero(x) == IF x = NULL THEN 0 ELSE x

\* JS `x * 100` (0-1 scale to 0-100 display scale)
Times100(x) == x * 100

Pow10(d) == IF d = 0 THEN 1 ELSE IF d = 1 THEN 10 ELSE IF d = 2 THEN 100 ELSE 1000

\* JS Number((num/den).toFixed(digits)) for num >= 0, den > 0: the multiple
\* of 10^-digits nearest to num/den, the larger one when two are equally near
ToFixed(num, den, digits) ==
    LET step == Fx \div Pow10(digits)
    IN  ((2 * num + step * den) \div (2 * step * den)) * step

Min(a, b) == IF a <= b THEN a ELSE b

\* ------------------------------------------------------------------------
\* Arrays
\* ------------------------------------------------------------------------

\* Array.prototype.slice(0, k)
Slice(s, k) == SubSeq(s, 1, Min(k, Len(s)))

\* reduce(..., 0) summing `field || 0`
SumOf(s, field) ==
    LET F[k \in 0..Len(s)] ==
            IF k = 0 THEN 0 ELSE F[k - 1] + OrZero(s[k][field])
    IN  F[Len(s)]

\* ------------------------------------------------------------------------
\* Metric records (services/api.ts, interface Country)
\* ------------------------------------------------------------------------

\* a record whose Region is undefined
RegionMissing == "<missing>"

\* a record of the Country interface
Country(name, region, cei, gci, ncsi, ddl, cat, risk) ==
    [Country |-> name, Region |-> region, CEI |-> cei, GCI |-> gci,
     NCSI |-> ncsi, DDL |-> ddl, Risk_Category |-> cat, Risk_Score |-> risk]

\* the property key an object uses for a value: String(undefined)
PropertyKey(v) == IF v = RegionMissing THEN "undefined" ELSE v

\* ------------------------------------------------------------------------
\* ComparisonChart: the views
\* ------------------------------------------------------------------------

Modes == {"regions", "topCountries", "bottomCountries", "riskLevels", "customCountries"}

\* K of the top/bottom views: slice(0, 10)
TopK == 10

\* the cap of the custom selection: selectedCountries.length < 8
MaxSelected == 8

\* the length above which a country name is shortened, and the kept prefix
NameLimit == 15

\* country.Country.length > 15 ? country.Country.substring(0, 15) + '...' : country.Country
ShortName(n) == IF Len(n) > NameLimit THEN SubSeq(n, 1, NameLimit) \o "..." ELSE n

\* GroupPush with `acc[key] = [country]` in place of the push
GroupPushOverwrite(acc, c, key) ==
    IF \E i \in 1..Len(acc) : acc[i].key = key
    THEN [i \in 1..Len(acc) |->
            IF acc[i].key = key
            THEN [acc[i] EXCEPT !.members = <<c>>]
            ELSE acc[i]]
    ELSE Append(acc, [key |-> key, members |-> <<c>>])

\* one step of the grouping reduce: acc[key] is created on first sight of
\* the key and the record is pushed onto it; keys keep their insertion order
GroupPush(acc, c, key) ==
    IF \E i \in 1..Len(acc) : acc[i].key = key
    THEN [i \in 1..Len(acc) |->
            IF acc[i].key = key
            THEN [acc[i] EXCEPT !.members = Append(@, c)]
            ELSE acc[i]]
    ELSE Append(acc, [key |-> key, members |-> <<c>>])

\* countries.reduce((acc, country) => ..., {}) followed by Object.entries
GroupBy(cs, field) ==
    LET F[k \in 0..Len(cs)] ==
            IF k = 0 THEN <<>>
            ELSE GroupPush(F[k - 1], cs[k], PropertyKey(cs[k][field]))
    IN  F[Len(cs)]

\* the aggregate of one group: the sum of `field || 0` over the members
\* divided by the number of members, rounded for display
GroupEntry(g) ==
    LET m == g.members
        n == Len(m)
    IN  [name              |-> g.key,
         CEI               |-> ToFixed(Times100(SumOf(m, "CEI")), n, 1),
         GCI               |-> ToFixed(SumOf(m, "GCI"), n, 1),
         NCSI              |-> ToFixed(SumOf(m, "NCSI"), n, 1),
         DDL               |-> ToFixed(SumOf(m, "DDL"), n, 1),
         Risk_Score        |-> ToFixed(Times100(SumOf(m, "Risk_Score")), n, 1),
         count             |-> n,
         originalCEI       |-> ToFixed(SumOf(m, "CEI"), n, 3),
         originalRiskScore |-> ToFixed(SumOf(m, "Risk_Score"), n, 3)]

\* Object.entries(groups).map(([key, members]) => ...)
GroupEntries(groups) == [i \in 1..Len(groups) |-> GroupEntry(groups[i])]

\* (a, b) => b['Risk Score'] - a['Risk Score'] on the rounded aggregates
CompareRegions(a, b) == b.Risk_Score - a.Risk_Score

\* CompareTop as a comparator that never answers 0
CompareTopNoTies(a, b) == IF OrZero(b.Risk_Score) >= OrZero(a.Risk_Score) THEN 1 ELSE -1

\* (a, b) => (b.Risk_Score || 0) - (a.Risk_Score || 0)
CompareTop(a, b) == OrZero(b.Risk_Score) - OrZero(a.Risk_Score)

\* CompareBottom with the operands of CompareTop
CompareBottomCopied(a, b) == OrZero(b.Risk_Score) - OrZero(a.Risk_Score)

\* (a, b) => (a.Risk_Score || 0) - (b.Risk_Score || 0)
CompareBottom(a, b) == OrZero(a.Risk_Score) - OrZero(b.Risk_Score)

\* the entry of one country in the top and bottom views
CountryEntry(c) ==
    [name              |-> ShortName(c.Country),
     fullName          |-> c.Country,
     CEI               |-> Times100(OrZero(c.CEI)),
     GCI               |-> OrZero(c.GCI),
     NCSI              |-> OrZero(c.NCSI),
     DDL               |-> OrZero(c.DDL),
     Risk_Score        |-> Times100(OrZero(c.Risk_Score)),
     region            |-> c.Region,
     originalCEI       |-> OrZero(c.CEI),
     originalRiskScore |-> OrZero(c.Risk_Score)]

\* the entry of one selected country in the custom view
CustomEntry(c) ==
    [name              |-> ShortName(c.Country),
     fullName          |-> c.Country,
     CEI               |-> OrZero(Times100(OrZero(c.CEI))),
     GCI               |-> OrZero(c.GCI),
     NCSI              |-> OrZero(c.NCSI),
     DDL               |-> OrZero(c.DDL),
     Risk_Score        |-> OrZero(Times100(OrZero(c.Risk_Score))),
     region            |-> c.Region,
     riskCategory      |-> c.Risk_Category,
     originalCEI       |-> OrZero(c.CEI),
     originalRiskScore |-> OrZero(c.Risk_Score)]

\* a mean kept at full precision: the fraction num / den
Frac(num, den) == [num |-> num, den |-> den]

\* the sign of a - b for two fractions with positive denominators
FracMinus(a, b) == a.num * b.den - b.num * a.den

\* TrendAnalysis: (a, b) => b.Risk_Score - a.Risk_Score on the unrounded means
CompareTrend(a, b) == FracMinus(b.Risk_Score, a.Risk_Score)

\* the compareFn of each call of sort
Compare(order, a, b) ==
    CASE order = "regions" -> CompareRegions(a, b)
      [] order = "top"     -> CompareTop(a, b)
      [] order = "bottom"  -> CompareBottom(a, b)
      [] order = "trend"   -> CompareTrend(a, b)

\* one step of a sort that is not stable: e goes before the elements of
\* the sorted prefix that compare equal to it
SortInsertBeforeEqual(t, e, order) ==
    LET later == {j \in 1..Len(t) : Compare(order, t[j], e) >= 0}
        pos   == IF later = {} THEN Len(t) + 1
                 ELSE CHOOSE j \in later : \A k \in later : j <= k
    IN  SubSeq(t, 1, pos - 1) \o <<e>> \o SubSeq(t, pos, Len(t))

\* one step of the stable sort: e goes behind every element of the sorted
\* prefix t that the comparator does not place after it
SortInsert(t, e, order) ==
    LET later == {j \in 1..Len(t) : Compare(order, t[j], e) > 0}
        pos   == IF later = {} THEN Len(t) + 1
                 ELSE CHOOSE j \in later : \A k \in later : j <= k
    IN  SubSeq(t, 1, pos - 1) \o <<e>> \o SubSeq(t, pos, Len(t))

\* the elements of a inserted one by one from left to right
SortedPrefix(a, order) ==
    LET F[k \in 0..Len(a)] ==
            IF k = 0 THEN <<>> ELSE SortInsert(F[k - 1], a[k], order)
    IN  F[Len(a)]

\* Array.prototype.sort(compareFn): stable (ECMAScript 2019); the array is
\* evaluated once
Sort(s, order) == CHOOSE r \in {SortedPrefix(a, order) : a \in {s}} : TRUE

\* case 'regions'
RegionsView(cs) == Sort(GroupEntries(GroupBy(cs, "Region")), "regions")

\* case 'riskLevels': grouped, not sorted
RiskLevelsView(cs) == GroupEntries(GroupBy(cs, "Risk_Category"))

\* countries.sort(...) of case 'topCountries': sorts the array in place
SortTop(cs) == Sort(cs, "top")

\* countries.sort(...) of case 'bottomCountries': sorts the array in place
SortBottom(cs) == Sort(cs, "bottom")

\* .slice(0, 10).map(country => ...)
CountryEntries(kept) == [i \in 1..Len(kept) |-> CountryEntry(kept[i])]

\* case 'topCountries' on the array as the sort left it
TopCountriesView(sorted) == CountryEntries(Slice(sorted, TopK))

\* case 'bottomCountries' on the array as the sort left it
BottomCountriesView(sorted) == CountryEntries(Slice(sorted, TopK))

\* case 'customCountries'
CustomView(sel) == IF Len(sel) = 0 THEN <<>> ELSE [i \in 1..Len(sel) |-> CustomEntry(sel[i])]

\* the countries array after the useMemo callback ran for mode m
CountriesAfter(cs, m) ==
    IF Len(cs) = 0 THEN cs
    ELSE CASE m = "topCountries"    -> SortTop(cs)
           [] m = "bottomCountries" -> SortBottom(cs)
           [] OTHER                 -> cs

\* the value the useMemo callback returns for mode m, `after` being the
\* array as the callback leaves it
DataOf(after, m, sel) ==
    IF Len(after) = 0 THEN <<>>
    ELSE CASE m = "customCountries" -> CustomView(sel)
           [] m = "regions"         -> RegionsView(after)
           [] m = "topCountries"    -> TopCountriesView(after)
           [] m = "bottomCountries" -> BottomCountriesView(after)
           [] m = "riskLevels"      -> RiskLevelsView(after)
           [] OTHER                 -> <<>>

\* the value of the useMemo callback for mode m
ComparisonData(cs, m, sel) == DataOf(CountriesAfter(cs, m), m, sel)

\* ------------------------------------------------------------------------
\* TrendAnalysis: the regions view
\* ------------------------------------------------------------------------

\* the entry of one region: unrounded means
TrendEntry(g) ==
    [name       |-> g.key,
     CEI        |-> Frac(Times100(SumOf(g.members, "CEI")), Len(g.members)),
     GCI        |-> Frac(SumOf(g.members, "GCI"), Len(g.members)),
     NCSI       |-> Frac(SumOf(g.members, "NCSI"), Len(g.members)),
     DDL        |-> Frac(SumOf(g.members, "DDL"), Len(g.members)),
     Risk_Score |-> Frac(Times100(SumOf(g.members, "Risk_Score")), Len(g.members)),
     count      |-> Len(g.members)]

\* Object.entries(regionGroups).map(([region, regionCountries]) => ...)
TrendEntries(groups) == [i \in 1..Len(groups) |-> TrendEntry(groups[i])]

\* trendData, case 'regions'
TrendRegionsView(cs) ==
    IF Len(cs) = 0 THEN <<>>
    ELSE Sort(TrendEntries(GroupBy(cs, "Region")), "trend")

\* ------------------------------------------------------------------------
\* Record sets the service can deliver
\* ------------------------------------------------------------------------

\* the longest small record set enumerated field by field
MaxSmall == 2

\* the longest generated record set
MaxN == 21

\* the longest record set offered to the custom selection
MaxSelN == 9

\* the number of selection edits explored from the small and generated sets
MaxEdits == 2

\* the number of selection edits explored on the selection sets
MaxSelEdits == 10

\* how far beyond the current selection length the options list is browsed
PickAhead == 1

CountryNames ==
    <<"Japan", "Norway", "Brazil", "United Arab Emirates", "Russia", "Kenya",
      "Bosnia and Herzegovina", "Chile", "India", "Canada", "Egypt", "Peru",
      "Fiji", "Oman", "Cuba", "Mali", "Togo", "Iran", "Iraq", "Laos",
      "Chad", "Niger", "Nepal", "Qatar">>

RegionNames == <<"Asia", "Europe", "Africa">>

\* the field values of the small record sets: two regions with risk means
\* that differ below the display rounding, missing indicators, a missing
\* risk score and a missing region
Archetypes ==
    << [Region |-> "Asia",   CEI |-> 5700, GCI |-> 900000, NCSI |-> 800000, DDL |-> 70000,
        Risk_Category |-> "High",   Risk_Score |-> 8200],
       [Region |-> "Europe", CEI |-> 1200, GCI |-> 300000, NCSI |-> NULL,   DDL |-> 20000,
        Risk_Category |-> "Low",    Risk_Score |-> 1500],
       [Region |-> "Asia",   CEI |-> NULL, GCI |-> NULL,   NCSI |-> 400000, DDL |-> NULL,
        Risk_Category |-> "Medium", Risk_Score |-> 5001],
       [Region |-> "Africa", CEI |-> 4000, GCI |-> 500000, NCSI |-> 500000, DDL |-> 50000,
        Risk_Category |-> "Medium", Risk_Score |-> 5004],
       [Region |-> RegionMissing, CEI |-> 3000, GCI |-> 0, NCSI |-> 100000, DDL |-> 10000,
        Risk_Category |-> "Low",    Risk_Score |-> NULL] >>

\* the record set whose i-th record has the fields of archetype pick[i]
SmallSet(pick) ==
    [i \in 1..Len(pick) |->
        LET a == Archetypes[pick[i]]
        IN  Country(CountryNames[i], a.Region, a.CEI, a.GCI, a.NCSI, a.DDL,
                    a.Risk_Category, a.Risk_Score)]

\* the members of a set of archetype numbers, ascending
Ascending(S) ==
    CHOOSE pick \in [1..Cardinality(S) -> S] :
        \A i, j \in 1..Cardinality(S) : i < j => pick[i] < pick[j]

SmallSets ==
    {SmallSet(Ascending(S)) :
        S \in {T \in SUBSET (1..Len(Archetypes)) : Cardinality(T) <= MaxSmall}}

\* the risk category the service assigns to a risk score
CategoryOf(risk) ==
    IF risk >= 7000 THEN "High" ELSE IF risk >= 4000 THEN "Medium" ELSE "Low"

\* a generated record set of n records: the i-th risk score is
\* ((mult * i) % modulus) * 400 + 100, so that modulus 1 gives n equal
\* scores, a small modulus gives many ties, and modulus 25 gives n distinct
\* ones; every fourth record has no region
GeneratedSet(n, mult, modulus) ==
    [i \in 1..n |->
        LET risk == ((mult * i) % modulus) * 400 + 100
        IN  Country(CountryNames[i],
                    IF i % 4 = 0 THEN RegionMissing ELSE RegionNames[(i % 3) + 1],
                    (i * 300) % Fx, ((i * 7) % 10) * 100000, ((i * 3) % 10) * 100000,
                    (i % 10) * 10000, CategoryOf(risk), risk)]

Moduli == {1, 3, 25}

\* the multipliers: 1 leaves distinct scores ascending, 7 shuffles them
Multipliers == {1, 7}

\* the sizes around the truncation length K and around 2K
GeneratedSizes == ((TopK - 1)..(TopK + 1)) \cup ((MaxN - 1)..MaxN)

GeneratedSets ==
    {GeneratedSet(n, mult, modulus) : n \in GeneratedSizes, mult \in Multipliers, modulus \in Moduli}

RecordSets == SmallSets \cup GeneratedSets

\* record sets with more records than the custom selection can hold
SelectionSets == {GeneratedSet(n, 1, 25) : n \in (MaxSelected + 1)..MaxSelN}

\* ------------------------------------------------------------------------
\* InteractiveFilters: the filter engine
\* ------------------------------------------------------------------------

\* the number of slider movements explored
MaxSliderEdits == 2

\* the record sets given to the filters as the countries prop: no record,
\* one record, and records that differ in region, category and indicators
FilterPicks == {<<>>, <<1>>, <<5>>, <<1, 2>>, <<3, 4>>, <<2, 5>>, <<1, 3>>, <<1, 3, 5>>}

FilterSets == {SmallSet(pick) : pick \in FilterPicks}

\* 100 on the display scale
Hundred == 100 * Fx

\* the values a slider movement delivers, an inverted pair among them
SliderInputs == {<<0, Hundred>>, <<0, Hundred \div 2>>, <<Hundred \div 2, Hundred>>,
                 <<Hundred \div 2, 0>>}

RangeFields == {"ceiRange", "gciRange", "ncsiRange", "ddlRange", "riskScoreRange"}

\* useState<FilterState>({...}): the filter state at mount; a selection
\* array is modelled as the set of its elements
DefaultFilters ==
    [selectedRegions        |-> {},
     selectedRiskCategories |-> {},
     ceiRange               |-> <<0, Hundred>>,
     gciRange               |-> <<0, Hundred>>,
     ncsiRange              |-> <<0, Hundred>>,
     ddlRange               |-> <<0, Hundred>>,
     riskScoreRange         |-> <<0, Hundred>>,
     showAdvanced           |-> FALSE]

\* Array.from(new Set(countries.map(c => c.Region)))
UniqueRegions(cs) == {cs[i].Region : i \in 1..Len(cs)}

\* Array.from(new Set(countries.map(c => c.Risk_Category)))
UniqueRiskCategories(cs) == {cs[i].Risk_Category : i \in 1..Len(cs)}

\* Math.min(...countries.map(c => c[field] || 0))
MinOf(cs, field) ==
    CHOOSE v \in {OrZero(cs[i][field]) : i \in 1..Len(cs)} :
        \A j \in 1..Len(cs) : v <= OrZero(cs[j][field])

\* Math.max(...countries.map(c => c[field] || 0))
MaxOf(cs, field) ==
    CHOOSE v \in {OrZero(cs[i][field]) : i \in 1..Len(cs)} :
        \A j \in 1..Len(cs) : v >= OrZero(cs[j][field])

\* metricRanges of a non-empty record set
MetricRanges(cs) ==
    [cei       |-> <<0, Hundred>>,
     gci       |-> <<MinOf(cs, "GCI"), MaxOf(cs, "GCI")>>,
     ncsi      |-> <<MinOf(cs, "NCSI"), MaxOf(cs, "NCSI")>>,
     ddl       |-> <<MinOf(cs, "DDL"), MaxOf(cs, "DDL")>>,
     riskScore |-> <<0, Hundred>>]

\* OutOfRange with `<=` and `>=`: the bounds themselves are out of range
OutOfRangeExclusive(value, range) == value <= range[1] \/ value >= range[2]

\* value < range[0] || value > range[1]
OutOfRange(value, range) == value < range[1] \/ value > range[2]

\* Passes with the range tests combined by OR: one range in bounds suffices
PassesAnyRange(country, f) ==
    IF f.selectedRegions # {} /\ country.Region \notin f.selectedRegions THEN FALSE
    ELSE IF f.selectedRiskCategories # {} /\ country.Risk_Category \notin f.selectedRiskCategories THEN FALSE
    ELSE \/ ~OutOfRange(Times100(OrZero(country.CEI)), f.ceiRange)
         \/ ~OutOfRange(OrZero(country.GCI), f.gciRange)
         \/ ~OutOfRange(OrZero(country.NCSI), f.ncsiRange)
         \/ ~OutOfRange(OrZero(country.DDL), f.ddlRange)
         \/ ~OutOfRange(Times100(OrZero(country.Risk_Score)), f.riskScoreRange)

\* the callback of countries.filter: each failing test returns false
Passes(country, f) ==
    IF f.selectedRegions # {} /\ country.Region \notin f.selectedRegions THEN FALSE
    ELSE IF f.selectedRiskCategories # {} /\ country.Risk_Category \notin f.selectedRiskCategories THEN FALSE
    ELSE IF OutOfRange(Times100(OrZero(country.CEI)), f.ceiRange) THEN FALSE
    ELSE IF OutOfRange(OrZero(country.GCI), f.gciRange) THEN FALSE
    ELSE IF OutOfRange(OrZero(country.NCSI), f.ncsiRange) THEN FALSE
    ELSE IF OutOfRange(OrZero(country.DDL), f.ddlRange) THEN FALSE
    ELSE IF OutOfRange(Times100(OrZero(country.Risk_Score)), f.riskScoreRange) THEN FALSE
    ELSE TRUE

\* filteredCountries: countries.filter(...)
FilteredCountries(cs, f) == SelectSeq(cs, LAMBDA c : Passes(c, f))

\* the state clearFilters sets
ClearedFilters(cs) ==
    [selectedRegions        |-> {},
     selectedRiskCategories |-> {},
     ceiRange               |-> <<0, Hundred>>,
     gciRange               |-> IF Len(cs) = 0 THEN <<0, Hundred>> ELSE MetricRanges(cs).gci,
     ncsiRange              |-> IF Len(cs) = 0 THEN <<0, Hundred>> ELSE MetricRanges(cs).ncsi,
     ddlRange               |-> IF Len(cs) = 0 THEN <<0, Hundred>> ELSE MetricRanges(cs).ddl,
     riskScoreRange         |-> <<0, Hundred>>,
     showAdvanced           |-> FALSE]

\* ------------------------------------------------------------------------
\* GeoChart: name matching and the enriched polygons
\* ------------------------------------------------------------------------

\* the number of records of a record set given to the map
MaxGeoN == 2

UpperCaseLetters == "ABCDEFGHIJKLMNOPQRSTUVWXYZ"

LowerCaseLetters == "abcdefghijklmnopqrstuvwxyz"

\* the lower-case letter of each upper-case letter
LowerCaseOf ==
    [ch \in {SubSeq(UpperCaseLetters, k, k) : k \in 1..Len(UpperCaseLetters)} |->
        LET k == CHOOSE k \in 1..Len(UpperCaseLetters) : SubSeq(UpperCaseLetters, k, k) = ch
        IN  SubSeq(LowerCaseLetters, k, k)]

\* toLowerCase of one character
LowerChar(ch) == IF ch \in DOMAIN LowerCaseOf THEN LowerCaseOf[ch] ELSE ch

\* String.prototype.toLowerCase
toLowerCase(s) ==
    LET F[k \in 0..Len(s)] == IF k = 0 THEN "" ELSE F[k - 1] \o LowerChar(SubSeq(s, k, k))
    IN  F[Len(s)]

\* String.prototype.includes: s.includes(part)
includes(s, part) ==
    \E i \in 1..(Len(s) - Len(part) + 1) : SubSeq(s, i, i + Len(part) - 1) = part

\* the value of getCountryMatch when no record matches (undefined)
NoCountry == [none |-> TRUE]

\* const nameMapping: the alias table
nameMapping ==
    [key \in {"United States of America", "Russian Federation", "Korea, Republic of",
              "Korea, Democratic People's Republic of", "Iran, Islamic Republic of",
              "Syrian Arab Republic", "Venezuela, Bolivarian Republic of",
              "Bolivia, Plurinational State of", "Tanzania, United Republic of",
              "Congo, Democratic Republic of the", "Congo, Republic of the",
              "Macedonia, the former Yugoslav Republic of", "Moldova, Republic of",
              "Palestinian Territory, Occupied", "Lao People's Democratic Republic",
              "Viet Nam", "Myanmar", "Brunei Darussalam"} |->
        CASE key = "United States of America" -> "United States"
          [] key = "Russian Federation" -> "Russia"
          [] key = "Korea, Republic of" -> "South Korea"
          [] key = "Korea, Democratic People's Republic of" -> "North Korea"
          [] key = "Iran, Islamic Republic of" -> "Iran"
          [] key = "Syrian Arab Republic" -> "Syria"
          [] key = "Venezuela, Bolivarian Republic of" -> "Venezuela"
          [] key = "Bolivia, Plurinational State of" -> "Bolivia"
          [] key = "Tanzania, United Republic of" -> "Tanzania"
          [] key = "Congo, Democratic Republic of the" -> "Democratic Republic of Congo"
          [] key = "Congo, Republic of the" -> "Republic of Congo"
          [] key = "Macedonia, the former Yugoslav Republic of" -> "North Macedonia"
          [] key = "Moldova, Republic of" -> "Moldova"
          [] key = "Palestinian Territory, Occupied" -> "Palestine"
          [] key = "Lao People's Democratic Republic" -> "Laos"
          [] key = "Viet Nam" -> "Vietnam"
          [] key = "Myanmar" -> "Myanmar"
          [] key = "Brunei Darussalam" -> "Brunei"]

\* the keys of countryCoordinates
countryCoordinates ==
    {"United States", "China", "Japan", "Germany", "United Kingdom", "France", "Italy",
     "Canada", "Australia", "Brazil", "India", "Russia", "South Korea", "Spain",
     "Netherlands", "Sweden", "Norway", "Denmark", "Finland", "Switzerland", "Austria",
     "Belgium", "Ireland", "Portugal", "Greece", "Poland", "Czech Republic", "Hungary",
     "Slovakia", "Slovenia", "Croatia", "Romania", "Bulgaria", "Serbia", "Ukraine",
     "Turkey", "Israel", "Saudi Arabia", "UAE", "Qatar", "Kuwait", "Jordan", "Samoa",
     "Tonga", "Palau", "Micronesia", "Marshall Islands"}

\* the records the service may deliver to the map: names that meet the
\* polygon names exactly up to case, through the alias table, or as a part
GeoCatalog ==
    << Country("Russia",             "Europe",  8200, 400000, 500000, 60000, "High Risk",   8200),
       Country("Russian Federation", "Europe",  1500, 900000, 900000, 90000, "Low Risk",    1500),
       Country("Vietnam",            "Asia",    5500, 600000, 600000, 50000, "Medium Risk", 5500),
       Country("GUINEA",             "Africa",  7500, 300000, 200000, 20000, "High Risk",   7500),
       Country("Guinea-Bissau",      "Africa",  3000, 700000, 800000, 80000, "Low Risk",    3000),
       Country("Papua New Guinea",   "Oceania", 4500, 500000, 400000, 40000, "Medium Risk", 4500) >>

\* the arrays of up to MaxGeoN different records of the catalog, in any order
GeoSets ==
    {[i \in 1..Len(pick) |-> GeoCatalog[pick[i]]] :
        pick \in {q \in UNION {[1..n -> 1..Len(GeoCatalog)] : n \in 0..MaxGeoN} :
                     \A i, j \in 1..Len(q) : i # j => q[i] # q[j]}}

\* properties.name of the polygons of the world map
WorldNames == <<"Russian Federation", "Viet Nam", "Guinea", "Equatorial Guinea", "Atlantis">>

\* worldGeoJson.features || []: no feature, or the polygons of the map
Worlds == {<<>>, WorldNames}

\* the names that occur as a record name, a polygon name or an alias
OccurringNames ==
    {GeoCatalog[i].Country : i \in 1..Len(GeoCatalog)}
        \cup {WorldNames[p] : p \in 1..Len(WorldNames)}
        \cup {nameMapping[key] : key \in DOMAIN nameMapping}

\* toLowerCase of the occurring names, computed once
LowerCased == [name \in OccurringNames |-> toLowerCase(name)]

\* name.toLowerCase()
Lowered(name) == IF name \in OccurringNames THEN LowerCased[name] ELSE toLowerCase(name)

\* the least member of a non-empty set of indices: the one Array.find stops at
FirstOf(S) == CHOOSE i \in S : \A j \in S : i <= j

\* the indices of the records whose lower-cased name is `lowered`
EqualIgnoringCase(names, lowered) == {i \in 1..Len(names) : names[i] = lowered}

\* the indices of the records whose lower-cased name contains the
\* lower-cased polygon name or is contained in it
PartialMatches(names, lowered) ==
    {i \in 1..Len(names) : includes(names[i], lowered) \/ includes(lowered, names[i])}

\* the first match of the first step that has one, 0 when none has
ByPrecedence(direct, mapped, partial) ==
    IF direct # {} THEN FirstOf(direct)
    ELSE IF mapped # {} THEN FirstOf(mapped)
    ELSE IF partial # {} THEN FirstOf(partial)
    ELSE 0

\* MatchIndex with the partial step tried first
MatchIndexPartialFirst(names, lowered, aliases) ==
    CHOOSE found \in
        {ByPrecedence(partial, direct, mapped) :
            direct  \in {EqualIgnoringCase(names, lowered)},
            mapped  \in {UNION {EqualIgnoringCase(names, alias) : alias \in aliases}},
            partial \in {PartialMatches(names, lowered)}} : TRUE

\* the index getCountryMatch finds, 0 when it finds none; names[i] is the
\* lower-cased name of record i, `lowered` the lower-cased polygon name and
\* `aliases` holds the lower-cased alias of the polygon name if it has one
MatchIndex(names, lowered, aliases) ==
    CHOOSE found \in
        {ByPrecedence(direct, mapped, partial) :
            direct  \in {EqualIgnoringCase(names, lowered)},
            mapped  \in {UNION {EqualIgnoringCase(names, alias) : alias \in aliases}},
            partial \in {PartialMatches(names, lowered)}} : TRUE

\* nameMapping[geoCountryName], lower-cased, if the name is a key
AliasesOf(geoCountryName) ==
    IF geoCountryName \in DOMAIN nameMapping
    THEN {Lowered(nameMapping[geoCountryName])}
    ELSE {}

\* the record at index `found`, undefined for 0
RecordAt(cs, found) == IF found = 0 THEN NoCountry ELSE cs[found]

\* getCountryMatch that stops after the direct name match
getCountryMatchDirectOnly(cs, geoCountryName) ==
    CHOOSE match \in
        {RecordAt(cs, ByPrecedence(EqualIgnoringCase(names, lowered), {}, {})) :
            names   \in {[k \in 1..Len(cs) |-> Lowered(cs[k].Country)]},
            lowered \in {Lowered(geoCountryName)}} : TRUE

\* getCountryMatch(geoCountryName) over the records cs
getCountryMatch(cs, geoCountryName) ==
    CHOOSE match \in
        {RecordAt(cs, found) :
            found \in {MatchIndex(names, lowered, aliases) :
                          names   \in {[k \in 1..Len(cs) |-> Lowered(cs[k].Country)]},
                          lowered \in {Lowered(geoCountryName)},
                          aliases \in {AliasesOf(geoCountryName)}}} : TRUE

\* getRiskColor(riskCategory)
getRiskColor(riskCategory) ==
    CASE riskCategory = "High Risk"   -> "#e74c3c"
      [] riskCategory = "Medium Risk" -> "#f39c12"
      [] riskCategory = "Low Risk"    -> "#27ae60"
      [] OTHER                        -> "#95a5a6"

\* altitudes are counted in units of 1e-7; NaN is what Math.max answers
\* when the risk score is missing
AltitudeNaN == -1

AltitudeOf(thousandths) == thousandths * 10000

\* Math.max(countryData.Risk_Score * 0.005, 0.02)
RiskAltitude(risk) ==
    IF risk = NULL THEN AltitudeNaN
    ELSE IF risk * 5 > AltitudeOf(20) THEN risk * 5 ELSE AltitudeOf(20)

\* the three filters of the map applied in turn to countries
GeoFiltered(cs, region, risk, countryFilter) ==
    LET byRegion  == IF region # "All" THEN SelectSeq(cs, LAMBDA c : c.Region = region) ELSE cs
        byRisk    == IF risk # "All"
                     THEN SelectSeq(byRegion, LAMBDA c : c.Risk_Category = risk)
                     ELSE byRegion
    IN  IF countryFilter # NoCountry
        THEN SelectSeq(byRisk, LAMBDA c : c.Country = countryFilter.Country)
        ELSE byRisk

\* EnhancedPolygon with shouldShow = filteredCountries.includes(countryData):
\* a polygon without a record gets the treatment of a filtered-out one
EnhancedPolygonMuted(polygon, countryData, shown) ==
    IF countryData # NoCountry /\ shown
    THEN [name |-> polygon, countryData |-> countryData,
          fillColor |-> getRiskColor(countryData.Risk_Category),
          strokeColor |-> "#1a1a1a",
          altitude |-> RiskAltitude(countryData.Risk_Score)]
    ELSE [name |-> polygon, countryData |-> countryData,
          fillColor |-> "rgba(44, 62, 80, 0.1)",
          strokeColor |-> "rgba(26, 26, 26, 0.3)",
          altitude |-> AltitudeOf(10)]

\* the callback of worldData.map: one enriched polygon
EnhancedPolygon(polygon, countryData, shown) ==
    LET shouldShow == countryData = NoCountry \/ shown
    IN  IF countryData # NoCountry /\ shouldShow
        THEN [name |-> polygon, countryData |-> countryData,
              fillColor |-> getRiskColor(countryData.Risk_Category),
              strokeColor |-> "#1a1a1a",
              altitude |-> RiskAltitude(countryData.Risk_Score)]
        ELSE IF ~shouldShow
        THEN [name |-> polygon, countryData |-> countryData,
              fillColor |-> "rgba(44, 62, 80, 0.1)",
              strokeColor |-> "rgba(26, 26, 26, 0.3)",
              altitude |-> AltitudeOf(10)]
        ELSE [name |-> polygon, countryData |-> countryData,
              fillColor |-> "#2c3e50",
              strokeColor |-> "#1a1a1a",
              altitude |-> AltitudeOf(15)]

\* filteredCountries.includes(countryData)
Includes(cs, c) == \E i \in 1..Len(cs) : cs[i] = c

\* the value of the enhancedPolygons callback; a polygon is its properties.name
EnhancedPolygons(world, cs, region, risk, countryFilter) ==
    IF Len(world) = 0 \/ Len(cs) = 0 THEN <<>>
    ELSE [p \in 1..Len(world) |->
            CHOOSE enhanced \in
                {EnhancedPolygon(world[p], countryData, Includes(filteredCountries, countryData)) :
                    countryData \in {getCountryMatch(cs, world[p])},
                    filteredCountries \in {GeoFiltered(cs, region, risk, countryFilter)}} : TRUE]

\* ------------------------------------------------------------------------
\* ComparisonChart: the component
\* ------------------------------------------------------------------------

VARIABLES
    countries,          \* useState: the record array (sorted in place by two views)
    loading,            \* useState
    error,              \* useState: "" is null
    mode,               \* useState
    selectedCountries,  \* useState
    comparisonData,     \* useMemo: the value of the last run of the callback
    fetch,              \* the position of loadCountries: "idle" or "pending"
    loaded,             \* history: the record array as it was delivered
    firstData,          \* history: the first value produced for a grouped mode
    edits,              \* the number of selection edits so far
    filterCountries,    \* InteractiveFilters: the countries prop
    filters,            \* InteractiveFilters: useState<FilterState>
    filteredCountries,  \* InteractiveFilters: useMemo
    notified,           \* InteractiveFilters: the last argument of onFiltersChange
    sliderEdits,        \* the number of slider movements so far
    propCountries,      \* ComparisonChart: the countries prop
    propChanges,        \* the number of changes of the countries prop so far
    geoCountries,       \* GeoChart: useState countries
    worldData,          \* GeoChart: useState, properties.name of each polygon
    selectedRegion,     \* GeoChart: useState
    selectedRisk,       \* GeoChart: useState
    selectedCountryFilter, \* GeoChart: useState, NoCountry is null
    selectedCountry,    \* GeoChart: useState, NoCountry is null
    geoLoading,         \* GeoChart: useState loading
    geoError,           \* GeoChart: useState error, "" is null
    enhancedPolygons,   \* GeoChart: useMemo, the value of the last run of the callback
    geoFetch,           \* the position of loadData: "idle" or "pending"
    worldFetched,       \* history: the polygons the world request delivered
    recordsFetched,     \* history: the records ApiService.getCountries delivered to loadData
    opRecords,          \* the record set a core operation is applied to
    opOutcome,          \* the last application of a core operation and how it ended
    metrics,            \* PredictionPanel: useState<PredictionRequest>
    prediction,         \* PredictionPanel: useState, NoPrediction is null
    predLoading,        \* PredictionPanel: useState loading
    predError,          \* PredictionPanel: useState error, "" is null
    requests,           \* the requests of predictRisk that are not answered yet
    tableCountries,     \* CountriesTable: the countries prop
    searchTerm,         \* CountriesTable: useState
    sortBy,             \* CountriesTable: useState
    sortDirection,      \* CountriesTable: useState
    tableRows           \* CountriesTable: filteredAndSortedCountries of the last render

ccVars == <<countries, loading, error, mode, selectedCountries, comparisonData,
            fetch, loaded, firstData, edits, propCountries, propChanges>>

filterVars == <<filterCountries, filters, filteredCountries, notified, sliderEdits>>

geoVars == <<geoCountries, worldData, selectedRegion, selectedRisk, selectedCountryFilter,
             selectedCountry, geoLoading, geoError, enhancedPolygons, geoFetch,
             worldFetched, recordsFetched>>

opVars == <<opRecords, opOutcome>>

\* the state outside ComparisonChart, InteractiveFilters and GeoChart
predVars == <<metrics, prediction, predLoading, predError, requests>>

tableVars == <<tableCountries, searchTerm, sortBy, sortDirection, tableRows>>

restVars == <<opVars, predVars, tableVars>>

vars == <<ccVars, filterVars, geoVars, restVars>>

\* what a step of ComparisonChart under an unchanged prop leaves alone
ccFrame == UNCHANGED <<propCountries, propChanges, filterVars, geoVars, restVars>>

\* what a step of InteractiveFilters leaves alone
filterFrame == UNCHANGED <<ccVars, geoVars, restVars>>

\* what a step of GeoChart leaves alone
geoFrame == UNCHANGED <<ccVars, filterVars, restVars>>

\* the countries prop: not given (undefined), or an array
NoProp == [given |-> FALSE, value |-> <<>>]

PropOf(data) == [given |-> TRUE, value |-> data]

NoError == ""

GroupedModes == {"regions", "riskLevels"}

NotSeen == [seen |-> FALSE, data |-> <<>>]

\* the history of first values after the callback produced data for mode m
Remember(first, m, data) ==
    IF m \in GroupedModes /\ ~first[m].seen
    THEN [first EXCEPT ![m] = [seen |-> TRUE, data |-> data]]
    ELSE first

\* a render whose useMemo dependencies changed: the callback runs on the
\* current array, which the top and bottom views sort in place
Render(cs, m, sel) ==
    \E after \in {CountriesAfter(cs, m)} :
       \E data \in {DataOf(after, m, sel)} :
          /\ countries' = after
          /\ comparisonData' = data
          /\ firstData' = IF Len(cs) = 0 THEN firstData ELSE Remember(firstData, m, data)

\* mount with the record sets `sets`: useState(propCountries || []),
\* useState(!propCountries), and the effect that starts loadCountries when
\* no prop was given
ccMount(sets) ==
    /\ mode = "regions"
    /\ selectedCountries = <<>>
    /\ error = NoError
    /\ edits = 0
    /\ propChanges = 0
    /\ \/ \E data \in sets :
             /\ propCountries = PropOf(data)
             /\ countries = data
             /\ loaded = data
             /\ loading = FALSE
             /\ fetch = "idle"
       \/ /\ propCountries = NoProp
          /\ countries = <<>>
          /\ loaded = <<>>
          /\ loading = TRUE
          /\ fetch = "pending"
    /\ comparisonData = ComparisonData(countries, "regions", <<>>)
    /\ firstData = IF Len(countries) = 0 THEN [m \in GroupedModes |-> NotSeen]
                   ELSE Remember([m \in GroupedModes |-> NotSeen], "regions", comparisonData)

\* the parent renders the component with another countries prop: the state
\* keeps its array (useState reads its argument at mount only), no
\* dependency of the comparisonData memo changes, and the effect starts
\* loadCountries when the prop is no longer given; a second request while
\* one is in flight is not followed
countriesPropChange(newProp) ==
    /\ newProp # propCountries
    /\ newProp.given \/ fetch = "idle"
    /\ propCountries' = newProp
    /\ propChanges' = propChanges + 1
    /\ IF newProp.given
       THEN UNCHANGED <<loading, error, fetch>>
       ELSE /\ loading' = TRUE
            /\ error' = NoError
            /\ fetch' = "pending"
    /\ UNCHANGED <<countries, mode, selectedCountries, comparisonData, loaded, firstData, edits>>
    /\ UNCHANGED <<filterVars, geoVars, restVars>>

\* loadCountries, after the await: the fetch delivered data
loadCountriesResolved(data) ==
    /\ fetch = "pending"
    /\ fetch' = "idle"
    /\ loaded' = data
    /\ loading' = FALSE
    /\ Render(data, mode, selectedCountries)
    /\ UNCHANGED <<error, mode, selectedCountries, edits>>
    /\ ccFrame

\* loadCountries without its finally block
loadCountriesRejectedNoFinally ==
    /\ fetch = "pending"
    /\ fetch' = "idle"
    /\ error' = "Failed to load countries data"
    /\ UNCHANGED <<loading, countries, mode, selectedCountries, comparisonData, loaded,
                   firstData, edits>>
    /\ ccFrame

\* loadCountries, after the await: the fetch failed
loadCountriesRejected ==
    /\ fetch = "pending"
    /\ fetch' = "idle"
    /\ error' = "Failed to load countries data"
    /\ loading' = FALSE
    /\ UNCHANGED <<countries, mode, selectedCountries, comparisonData, loaded,
                   firstData, edits>>
    /\ ccFrame

\* the controls are rendered only when the component neither loads nor failed
Shown == ~loading /\ error = NoError

\* ToggleButtonGroup onChange: newMode && setMode(newMode)
setMode(newMode) ==
    /\ Shown
    /\ newMode # mode
    /\ mode' = newMode
    /\ Render(countries, newMode, selectedCountries)
    /\ UNCHANGED <<loading, error, selectedCountries, fetch, loaded, edits>>
    /\ ccFrame

\* CanAdd with `<=` in place of `<`
CanAddOffByOne(sel, country) ==
    /\ ~\E i \in 1..Len(sel) : sel[i].Country = country.Country
    /\ Len(sel) <= MaxSelected

\* the test of addCountryToComparison: not yet selected and below the cap
CanAdd(sel, country) ==
    /\ ~\E i \in 1..Len(sel) : sel[i].Country = country.Country
    /\ Len(sel) < MaxSelected

\* addCountryToComparison(country)
addCountryToComparison(country) ==
    /\ Shown
    /\ mode = "customCountries"
    /\ edits' = edits + 1
    /\ IF CanAdd(selectedCountries, country)
       THEN /\ selectedCountries' = Append(selectedCountries, country)
            /\ Render(countries, mode, selectedCountries')
       ELSE UNCHANGED <<selectedCountries, countries, comparisonData, firstData>>
    /\ UNCHANGED <<loading, error, mode, fetch, loaded>>
    /\ ccFrame

\* WithoutCountry that drops every entry from the named one on
WithoutCountryAndRest(sel, countryName) ==
    LET at == {i \in 1..Len(sel) : sel[i].Country = countryName}
    IN  IF at = {} THEN sel
        ELSE SubSeq(sel, 1, (CHOOSE i \in at : \A j \in at : i <= j) - 1)

\* selectedCountries.filter(c => c.Country !== countryName)
WithoutCountry(sel, countryName) == SelectSeq(sel, LAMBDA c : c.Country # countryName)

\* removeCountryFromComparison(countryName)
removeCountryFromComparison(countryName) ==
    /\ Shown
    /\ mode = "customCountries"
    /\ edits' = edits + 1
    /\ selectedCountries' = WithoutCountry(selectedCountries, countryName)
    /\ Render(countries, mode, selectedCountries')
    /\ UNCHANGED <<loading, error, mode, fetch, loaded>>
    /\ ccFrame

\* clearAllCountries(); its button is disabled on an empty selection
clearAllCountries ==
    /\ Shown
    /\ mode = "customCountries"
    /\ Len(selectedCountries) > 0
    /\ edits' = edits + 1
    /\ selectedCountries' = <<>>
    /\ Render(countries, mode, selectedCountries')
    /\ UNCHANGED <<loading, error, mode, fetch, loaded>>
    /\ ccFrame

\* the options of the Autocomplete (options={countries}) the user reaches
Options == 1..Min(Len(countries), Len(selectedCountries) + PickAhead)

\* the chips of the selection (one per selected country)
Chips == 1..Len(selectedCountries)

\* ------------------------------------------------------------------------
\* InteractiveFilters: the component
\* ------------------------------------------------------------------------

\* mount with a countries prop out of `sets`; the effect delivers the first
\* filtered result to the parent
filterMount(sets) ==
    /\ filterCountries \in sets
    /\ filters = DefaultFilters
    /\ filteredCountries = FilteredCountries(filterCountries, filters)
    /\ notified = filteredCountries
    /\ sliderEdits = 0

\* a render after setFilters without the effect on [filteredCountries]
FilterRenderNoEffect(f) ==
    /\ filters' = f
    /\ filteredCountries' = FilteredCountries(filterCountries, f)
    /\ UNCHANGED <<notified, filterCountries>>

\* a render after setFilters: the memo is recomputed and the effect calls
\* onFiltersChange(filteredCountries)
FilterRender(f) ==
    /\ filters' = f
    /\ filteredCountries' = FilteredCountries(filterCountries, f)
    /\ notified' = filteredCountries'
    /\ UNCHANGED filterCountries

\* `if (!metricRanges) return null`: no control exists without records
FilterShown == Len(filterCountries) > 0

\* handleRegionChange(event)
handleRegionChange(value) ==
    /\ FilterShown
    /\ FilterRender([filters EXCEPT !.selectedRegions = value])
    /\ UNCHANGED sliderEdits
    /\ filterFrame

\* handleRiskCategoryChange(event)
handleRiskCategoryChange(value) ==
    /\ FilterShown
    /\ FilterRender([filters EXCEPT !.selectedRiskCategories = value])
    /\ UNCHANGED sliderEdits
    /\ filterFrame

\* handleSliderChange(field)(event, newValue)
handleSliderChange(field, newValue) ==
    /\ FilterShown
    /\ FilterRender([filters EXCEPT ![field] = newValue])
    /\ sliderEdits' = sliderEdits + 1
    /\ filterFrame

\* the Switch: setFilters(prev => ({ ...prev, showAdvanced: e.target.checked }))
setShowAdvanced(checked) ==
    /\ FilterShown
    /\ checked # filters.showAdvanced
    /\ FilterRender([filters EXCEPT !.showAdvanced = checked])
    /\ UNCHANGED sliderEdits
    /\ filterFrame

\* clearFilters()
clearFilters ==
    /\ FilterShown
    /\ FilterRender(ClearedFilters(filterCountries))
    /\ UNCHANGED sliderEdits
    /\ filterFrame

\* the parent renders the component with another countries prop: the memo
\* on [countries, filters] is recomputed under the filters as they are and
\* the effect calls onFiltersChange(filteredCountries)
filterCountriesPropChange(newCountries) ==
    /\ newCountries # filterCountries
    /\ filterCountries' = newCountries
    /\ filteredCountries' = FilteredCountries(newCountries, filters)
    /\ notified' = filteredCountries'
    /\ UNCHANGED <<filters, sliderEdits>>
    /\ filterFrame

\* ------------------------------------------------------------------------
\* GeoChart: the component
\* ------------------------------------------------------------------------

\* the enhancedPolygons memo runs again: its dependencies are worldData,
\* countries, selectedRegion and selectedRisk
GeoMemo(world, cs, region, risk, countryFilter) ==
    enhancedPolygons' = EnhancedPolygons(world, cs, region, risk, countryFilter)

\* mount: the initial state, and the effect that starts loadData
geoMount ==
    /\ geoCountries = <<>>
    /\ worldData = <<>>
    /\ selectedRegion = "All"
    /\ selectedRisk = "All"
    /\ selectedCountryFilter = NoCountry
    /\ selectedCountry = NoCountry
    /\ geoLoading = TRUE
    /\ geoError = NoError
    /\ enhancedPolygons = <<>>
    /\ geoFetch = "pending"
    /\ worldFetched = <<>>
    /\ recordsFetched = <<>>

\* loadData: both requests answered and worldResponse.ok
loadDataResolved(features, countriesData) ==
    /\ geoFetch = "pending"
    /\ geoFetch' = "idle"
    /\ worldData' = features
    /\ worldFetched' = features
    /\ recordsFetched' = countriesData
    /\ geoCountries' = countriesData
    /\ geoError' = NoError
    /\ geoLoading' = FALSE
    /\ GeoMemo(features, countriesData, selectedRegion, selectedRisk, selectedCountryFilter)
    /\ UNCHANGED <<selectedRegion, selectedRisk, selectedCountryFilter, selectedCountry>>
    /\ geoFrame

\* loadData: a request failed or worldResponse.ok is false; features is what
\* the world request delivered (nothing when it is the one that failed), and
\* the catch block stores none of it
loadDataRejected(features) ==
    /\ geoFetch = "pending"
    /\ geoFetch' = "idle"
    /\ worldFetched' = features
    /\ geoError' = "Failed to load map data. Please ensure you have an internet connection."
    /\ geoLoading' = FALSE
    /\ UNCHANGED <<worldData, geoCountries, enhancedPolygons, selectedRegion, selectedRisk,
                   selectedCountryFilter, selectedCountry, recordsFetched>>
    /\ geoFrame

\* the controls and the globe are rendered
GeoShown == ~geoLoading /\ geoError = NoError

\* const regions: 'All' and the regions of the records
GeoRegions == {"All"} \cup {geoCountries[i].Region : i \in 1..Len(geoCountries)}

\* const riskCategories: 'All' and the risk categories of the records
GeoRiskCategories == {"All"} \cup {geoCountries[i].Risk_Category : i \in 1..Len(geoCountries)}

\* the Region select: onChange={(e) => setSelectedRegion(e.target.value)}
setSelectedRegion(value) ==
    /\ GeoShown
    /\ value # selectedRegion
    /\ selectedRegion' = value
    /\ GeoMemo(worldData, geoCountries, value, selectedRisk, selectedCountryFilter)
    /\ UNCHANGED <<geoCountries, worldData, selectedRisk, selectedCountryFilter, selectedCountry,
                   geoLoading, geoError, geoFetch, worldFetched, recordsFetched>>
    /\ geoFrame

\* the Risk Level select: onChange={(e) => setSelectedRisk(e.target.value)}
setSelectedRisk(value) ==
    /\ GeoShown
    /\ value # selectedRisk
    /\ selectedRisk' = value
    /\ GeoMemo(worldData, geoCountries, selectedRegion, value, selectedCountryFilter)
    /\ UNCHANGED <<geoCountries, worldData, selectedRegion, selectedCountryFilter, selectedCountry,
                   geoLoading, geoError, geoFetch, worldFetched, recordsFetched>>
    /\ geoFrame

\* the record zoomToCountry leaves in selectedCountry: the globe is mounted,
\* so the record is stored when its name has coordinates
AfterZoom(country) ==
    IF country.Country \in countryCoordinates THEN country ELSE selectedCountry

\* the Search Country Autocomplete: onChange with a record or with null;
\* no dependency of the enhancedPolygons memo changes
countryFilterChange(newValue) ==
    /\ GeoShown
    /\ newValue # selectedCountryFilter
    /\ selectedCountryFilter' = newValue
    /\ selectedCountry' = IF newValue # NoCountry THEN AfterZoom(newValue) ELSE selectedCountry
    /\ UNCHANGED <<geoCountries, worldData, selectedRegion, selectedRisk, enhancedPolygons,
                   geoLoading, geoError, geoFetch, worldFetched, recordsFetched>>
    /\ geoFrame

\* the Zoom button, rendered while a country filter is set
zoomToCountry ==
    /\ GeoShown
    /\ selectedCountryFilter # NoCountry
    /\ selectedCountry' = AfterZoom(selectedCountryFilter)
    /\ UNCHANGED <<geoCountries, worldData, selectedRegion, selectedRisk, selectedCountryFilter,
                   enhancedPolygons, geoLoading, geoError, geoFetch, worldFetched, recordsFetched>>
    /\ geoFrame

\* the Clear Country Filter button: setSelectedCountryFilter(null); resetView()
clearCountryFilter ==
    /\ GeoShown
    /\ selectedCountryFilter # NoCountry
    /\ selectedCountryFilter' = NoCountry
    /\ UNCHANGED <<geoCountries, worldData, selectedRegion, selectedRisk, selectedCountry,
                   enhancedPolygons, geoLoading, geoError, geoFetch, worldFetched, recordsFetched>>
    /\ geoFrame

\* handleCountryClick(polygon)
handleCountryClick(polygon) ==
    /\ GeoShown
    /\ selectedCountry' = IF polygon.countryData # NoCountry THEN polygon.countryData
                          ELSE selectedCountry
    /\ UNCHANGED <<geoCountries, worldData, selectedRegion, selectedRisk, selectedCountryFilter,
                   enhancedPolygons, geoLoading, geoError, geoFetch, worldFetched, recordsFetched>>
    /\ geoFrame

\* ------------------------------------------------------------------------
\* PredictionPanel: the component
\* ------------------------------------------------------------------------

\* the keys of METRICS_INFO
MetricKeys == {"CEI", "GCI", "NCSI", "DDL"}

\* useState<PredictionRequest>({ CEI: 0.5, GCI: 50, NCSI: 50, DDL: 50 })
DefaultMetrics == [CEI |-> 5000, GCI |-> 50 * Fx, NCSI |-> 50 * Fx, DDL |-> 50 * Fx]

\* the positions a slider is moved to: the ends of METRICS_INFO[key].range
\* and the initial value
MetricInputs(key) ==
    IF key = "CEI" THEN {0, 5000, Fx} ELSE {0, 50 * Fx, 100 * Fx}

\* the requests that may be unanswered at a time in the behaviours explored
MaxOutstanding == 2

\* the value of prediction before the first answer (null)
NoPrediction == [none |-> TRUE]

\* the answers of POST /api/predict, told apart by primary_prediction
PredictionResponses ==
    {[risk_category |-> category] : category \in {"Low Risk", "Medium Risk", "High Risk"}}

predFrame == UNCHANGED <<ccVars, filterVars, geoVars, opVars, tableVars>>

predMount ==
    /\ metrics = DefaultMetrics
    /\ prediction = NoPrediction
    /\ predLoading = FALSE
    /\ predError = NoError
    /\ requests = <<>>

\* handleMetricChange(metric)(event, newValue); the sliders are never disabled
handleMetricChange(metric, newValue) ==
    /\ newValue # metrics[metric]
    /\ metrics' = [metrics EXCEPT ![metric] = newValue]
    /\ UNCHANGED <<prediction, predLoading, predError, requests>>
    /\ predFrame

\* handlePredict called whether or not the button is disabled
handlePredictAlways ==
    /\ predLoading' = TRUE
    /\ predError' = NoError
    /\ requests' = Append(requests, metrics)
    /\ UNCHANGED <<metrics, prediction>>
    /\ predFrame

\* handlePredict up to its await: the button is rendered with
\* disabled={loading}
handlePredict ==
    /\ ~predLoading
    /\ predLoading' = TRUE
    /\ predError' = NoError
    /\ requests' = Append(requests, metrics)
    /\ UNCHANGED <<metrics, prediction>>
    /\ predFrame

\* the array without its k-th element
WithoutAt(s, k) == SubSeq(s, 1, k - 1) \o SubSeq(s, k + 1, Len(s))

\* handlePredict after the await: request k was answered with result
predictRiskResolved(k, result) ==
    /\ k \in 1..Len(requests)
    /\ requests' = WithoutAt(requests, k)
    /\ prediction' = result
    /\ predLoading' = FALSE
    /\ UNCHANGED <<metrics, predError>>
    /\ predFrame

\* handlePredict after the await: request k failed
predictRiskRejected(k) ==
    /\ k \in 1..Len(requests)
    /\ requests' = WithoutAt(requests, k)
    /\ predError' = "Failed to make prediction. Please check your connection."
    /\ predLoading' = FALSE
    /\ UNCHANGED <<metrics, prediction>>
    /\ predFrame

\* ------------------------------------------------------------------------
\* CountriesTable: the component
\* ------------------------------------------------------------------------

\* the length of the record sets given to the table
MaxTableN == 3

\* the columns with a TableSortLabel
Columns == {"Country", "Region", "CEI", "GCI", "NCSI", "DDL", "Risk_Category", "Risk_Score"}

\* the columns whose values are strings
StringColumns == {"Country", "Region", "Risk_Category"}

\* the characters of the lower-cased names, regions and categories in the
\* order of the collation: white space, punctuation, letters
Collation == " -abcdefghijklmnopqrstuvwxyz"

CollationRank ==
    [ch \in {SubSeq(Collation, k, k) : k \in 1..Len(Collation)} |->
        CHOOSE k \in 1..Len(Collation) : SubSeq(Collation, k, k) = ch]

CharRank(ch) == IF ch \in DOMAIN CollationRank THEN CollationRank[ch] ELSE 0

Sign(x) == IF x < 0 THEN -1 ELSE IF x > 0 THEN 1 ELSE 0

\* the places where two strings differ, within the length of the shorter
Differing(a, b) == {k \in 1..Min(Len(a), Len(b)) : SubSeq(a, k, k) # SubSeq(b, k, k)}

FirstDiffering(a, b) == CHOOSE k \in Differing(a, b) : \A j \in Differing(a, b) : k <= j

\* the comparison of two lower-cased strings, character by character
PrimaryCompare(a, b) ==
    IF Differing(a, b) = {} THEN Sign(Len(a) - Len(b))
    ELSE Sign(CharRank(SubSeq(a, FirstDiffering(a, b), FirstDiffering(a, b)))
              - CharRank(SubSeq(b, FirstDiffering(a, b), FirstDiffering(a, b))))

\* String.prototype.localeCompare: the letters decide, then the case of
\* the first letter that differs, lower case first
localeCompare(a, b) ==
    LET primary == PrimaryCompare(toLowerCase(a), toLowerCase(b))
    IN  IF primary # 0 THEN primary
        ELSE IF a = b THEN 0
        ELSE IF SubSeq(a, FirstDiffering(a, b), FirstDiffering(a, b)) \in DOMAIN LowerCaseOf
        THEN 1 ELSE -1

\* typeof value === 'string' / 'number' for the value of a column
IsString(c, column) == column \in StringColumns /\ c[column] # RegionMissing

IsNumber(c, column) == column \notin StringColumns /\ c[column] # NULL

\* the compare function of the sort
TableCompare(a, b, by, direction) ==
    IF IsString(a, by) /\ IsString(b, by)
    THEN IF direction = "asc" THEN localeCompare(a[by], b[by]) ELSE localeCompare(b[by], a[by])
    ELSE IF IsNumber(a, by) /\ IsNumber(b, by)
    THEN IF direction = "asc" THEN a[by] - b[by] ELSE b[by] - a[by]
    ELSE 0

\* one step of the stable sort under the compare function of the table
TableSortInsert(t, e, by, direction) ==
    LET later == {j \in 1..Len(t) : TableCompare(t[j], e, by, direction) > 0}
        pos   == IF later = {} THEN Len(t) + 1
                 ELSE CHOOSE j \in later : \A k \in later : j <= k
    IN  SubSeq(t, 1, pos - 1) \o <<e>> \o SubSeq(t, pos, Len(t))

\* .sort((a, b) => ...)
TableSort(cs, by, direction) ==
    LET F[k \in 0..Len(cs)] ==
            IF k = 0 THEN <<>> ELSE TableSortInsert(F[k - 1], cs[k], by, direction)
    IN  F[Len(cs)]

\* the callback of .filter: the name or the region contains the search term
SearchMatches(c, term) ==
    \/ includes(toLowerCase(c.Country), toLowerCase(term))
    \/ includes(toLowerCase(c.Region), toLowerCase(term))

\* const filteredAndSortedCountries = countries.filter(...).sort(...)
filteredAndSortedCountries(cs, term, by, direction) ==
    TableSort(SelectSeq(cs, LAMBDA c : SearchMatches(c, term)), by, direction)

\* the countries prop sorted where it stands
TableCountriesSortedInPlace(cs, term, by, direction) == TableSort(cs, by, direction)

\* the countries prop after a render: filter returns a new array, and sort
\* orders that array
TableCountriesAfter(cs, term, by, direction) == cs

\* the record sets given to the table: runs of records of the catalog
TableSets ==
    {SubSeq(GeoCatalog, from, Min(from + n - 1, Len(GeoCatalog))) :
        from \in 1..Len(GeoCatalog), n \in 0..MaxTableN}

\* what is typed into the search field
SearchTerms == {"", "Guinea", "EUROPE"}

tableFrame == UNCHANGED <<ccVars, filterVars, geoVars, opVars, predVars>>

tableMount(sets) ==
    /\ tableCountries \in sets
    /\ searchTerm = ""
    /\ sortBy = "Country"
    /\ sortDirection = "asc"
    /\ tableRows = filteredAndSortedCountries(tableCountries, "", "Country", "asc")

\* a render of the table
TableRender(term, by, direction) ==
    /\ tableRows' = filteredAndSortedCountries(tableCountries, term, by, direction)
    /\ tableCountries' = TableCountriesAfter(tableCountries, term, by, direction)

\* handleSort(column)
handleSort(column) ==
    /\ sortDirection' = IF sortBy = column /\ sortDirection = "asc" THEN "desc" ELSE "asc"
    /\ sortBy' = column
    /\ TableRender(searchTerm, column, sortDirection')
    /\ UNCHANGED searchTerm
    /\ tableFrame

\* the search field: onChange={(e) => setSearchTerm(e.target.value)}
setSearchTerm(term) ==
    /\ term # searchTerm
    /\ searchTerm' = term
    /\ TableRender(term, sortBy, sortDirection)
    /\ UNCHANGED <<sortBy, sortDirection>>
    /\ tableFrame

\* ------------------------------------------------------------------------
\* The core operations on records and polygons without a name
\* ------------------------------------------------------------------------

\* the length of the record sets the operations are applied to
MaxOpN == 2

\* a Country or properties.name that is undefined
NameMissing == "<undefined>"

\* an ordinary record, a record without name, a record with the empty name
\* and a record without numeric fields
OpCatalog ==
    << Country("Japan",     "Asia",   5700, 900000, 800000, 70000, "High Risk", 8200),
       Country(NameMissing, "Asia",   1200, 300000, 400000, 20000, "Low Risk",  1500),
       Country("",          "Europe", 4000, 500000, 500000, 50000, "Medium Risk", 5000),
       Country("Chad",      "Africa", NULL, NULL,   NULL,   NULL,  "Low Risk",  NULL) >>

\* the choices of distinct records of the catalog, in every order
OpPicks ==
    {pick \in UNION {[1..n -> 1..Len(OpCatalog)] : n \in 0..MaxOpN} :
        \A i, j \in DOMAIN pick : i # j => pick[i] # pick[j]}

OpSets == {[i \in 1..Len(pick) |-> OpCatalog[pick[i]]] : pick \in OpPicks}

\* the polygon names: undefined, empty, the name of a record, of no record
OpNames == {NameMissing, "", "Japan", "Atlantis"}

\* the filter states the filter is applied with
OpFilters == {DefaultFilters, [DefaultFilters EXCEPT !.selectedRegions = {"Asia"}]}

\* country.Country.length and c.Country.toLowerCase() throw a TypeError on a
\* record whose Country is undefined
NameAccessThrows(c) == c.Country = NameMissing

\* countries.find(callback) where the callback reads c.Country.toLowerCase():
\* it runs on every record up to the first hit
FindThrows(cs, hits) ==
    \E i \in 1..Len(cs) : NameAccessThrows(cs[i]) /\ \A j \in 1..(i - 1) : j \notin hits

\* getCountryMatch throws: the three finds in turn; on an empty array no
\* callback runs and nameMapping[undefined] is undefined
getCountryMatchThrows(cs, geoCountryName) ==
    IF Len(cs) = 0 THEN FALSE
    ELSE IF geoCountryName = NameMissing THEN TRUE
    ELSE LET named   == {i \in 1..Len(cs) : ~NameAccessThrows(cs[i])}
             direct  == {i \in named : toLowerCase(cs[i].Country) = toLowerCase(geoCountryName)}
             aliases == AliasesOf(geoCountryName)
             mapped  == {i \in named : toLowerCase(cs[i].Country) \in aliases}
             partial == {i \in named :
                            \/ includes(toLowerCase(cs[i].Country), toLowerCase(geoCountryName))
                            \/ includes(toLowerCase(geoCountryName), toLowerCase(cs[i].Country))}
         IN  \/ FindThrows(cs, direct)
             \/ direct = {} /\ aliases # {} /\ FindThrows(cs, mapped)
             \/ direct = {} /\ mapped = {} /\ FindThrows(cs, partial)

\* the comparisonData callback throws: the top, bottom and custom views read
\* country.Country.length of every record they map
ComparisonDataThrows(cs, m, sel) ==
    IF Len(cs) = 0 THEN FALSE
    ELSE CASE m = "customCountries" -> \E i \in 1..Len(sel) : NameAccessThrows(sel[i])
           [] m = "topCountries"    ->
                \E kept \in {Slice(SortTop(cs), TopK)} :
                   \E i \in 1..Len(kept) : NameAccessThrows(kept[i])
           [] m = "bottomCountries" ->
                \E kept \in {Slice(SortBottom(cs), TopK)} :
                   \E i \in 1..Len(kept) : NameAccessThrows(kept[i])
           [] OTHER                 -> FALSE

\* the filteredCountries callback throws: it reads fields only, with `|| 0`
\* on the numeric ones, and calls includes on the arrays of the filter state
FilteredCountriesThrows(cs, f) == FALSE

NoOutcome == [op |-> "none"]

Outcome(op, input, threw) ==
    [op |-> op, input |-> input, result |-> IF threw THEN "TypeError" ELSE "returned"]

opMount(sets) ==
    /\ opRecords \in sets
    /\ opOutcome = NoOutcome

opFrame == UNCHANGED <<ccVars, filterVars, geoVars, predVars, tableVars, opRecords>>

\* filteredCountries is computed from the records under the filter state f
applyFilter(f) ==
    /\ opOutcome' = Outcome("filteredCountries", f, FilteredCountriesThrows(opRecords, f))
    /\ opFrame

\* comparisonData is computed from the records in mode m, every record
\* being selected
applyComparison(m) ==
    /\ opOutcome' = Outcome("comparisonData", m, ComparisonDataThrows(opRecords, m, opRecords))
    /\ opFrame

\* getCountryMatch is called with a polygon name
applyMatch(geoCountryName) ==
    /\ opOutcome' = Outcome("getCountryMatch", geoCountryName,
                            getCountryMatchThrows(opRecords, geoCountryName))
    /\ opFrame

\* ------------------------------------------------------------------------
\* Specifications
\* ------------------------------------------------------------------------

\* the core operations while a component is explored: nothing applied
opIdle == opMount({<<>>})

\* PredictionPanel while another component is explored: mounted
predIdle == predMount

\* CountriesTable while another component is explored: no records
tableIdle == tableMount({<<>>})

restIdle == opIdle /\ predIdle /\ tableIdle

\* InteractiveFilters while the comparison views are explored: no records
filterIdle == filterMount({<<>>})

\* ComparisonChart while the filters are explored: an empty countries prop
ccIdle ==
    /\ countries = <<>>
    /\ loaded = <<>>
    /\ loading = FALSE
    /\ error = NoError
    /\ mode = "regions"
    /\ selectedCountries = <<>>
    /\ comparisonData = <<>>
    /\ fetch = "idle"
    /\ firstData = [m \in GroupedModes |-> NotSeen]
    /\ edits = 0
    /\ propCountries = PropOf(<<>>)
    /\ propChanges = 0

\* GeoChart while another component is explored: mounted, loadData pending
geoIdle == geoMount

\* the prop is given with a small record set, or the records are fetched
Init == ccMount(SmallSets) /\ filterIdle /\ geoIdle /\ restIdle

Next ==
    \/ fetch = "pending" /\ \E data \in RecordSets : loadCountriesResolved(data)
    \/ loadCountriesRejected
    \/ \E newMode \in Modes : setMode(newMode)
    \/ edits < MaxEdits /\ \E i \in Options : addCountryToComparison(countries[i])
    \/ edits < MaxEdits /\ \E i \in Chips : removeCountryFromComparison(selectedCountries[i].Country)
    \/ edits < MaxEdits /\ clearAllCountries

\* the comparison views over every record set, with a few selection edits
Spec == Init /\ [][Next]_vars

SelInit == ccMount(SelectionSets) /\ filterIdle /\ geoIdle /\ restIdle

SelNext ==
    \/ fetch = "pending" /\ \E data \in SelectionSets : loadCountriesResolved(data)
    \/ loadCountriesRejected
    \/ setMode("customCountries")
    \/ edits < MaxSelEdits /\ \E i \in Options : addCountryToComparison(countries[i])
    \/ edits < MaxSelEdits /\ \E i \in Chips : removeCountryFromComparison(selectedCountries[i].Country)
    \/ edits < MaxSelEdits /\ clearAllCountries

\* the custom selection up to its cap, on record sets larger than the cap
SpecSel == SelInit /\ [][SelNext]_vars

FilterInit == filterMount(FilterSets) /\ ccIdle /\ geoIdle /\ restIdle

FilterNext ==
    \/ \E value \in SUBSET UniqueRegions(filterCountries) : handleRegionChange(value)
    \/ \E value \in SUBSET UniqueRiskCategories(filterCountries) : handleRiskCategoryChange(value)
    \/ sliderEdits < MaxSliderEdits /\ \E field \in RangeFields, newValue \in SliderInputs :
          handleSliderChange(field, newValue)
    \/ \E checked \in BOOLEAN : setShowAdvanced(checked)
    \/ clearFilters

\* the filters over the small record sets
SpecFilter == FilterInit /\ [][FilterNext]_vars

\* the number of changes of the countries prop explored
MaxPropChanges == 2

\* the values of the countries prop: not given, or a small record set
PropValues == {NoProp} \cup {PropOf(data) : data \in FilterSets}

PropInit == ccMount(FilterSets) /\ filterIdle /\ geoIdle /\ restIdle

PropNext ==
    \/ propChanges < MaxPropChanges /\ \E newProp \in PropValues : countriesPropChange(newProp)
    \/ fetch = "pending" /\ \E data \in FilterSets : loadCountriesResolved(data)
    \/ loadCountriesRejected
    \/ \E newMode \in Modes : setMode(newMode)

\* the comparison views under a countries prop that the parent replaces
SpecProp == PropInit /\ [][PropNext]_vars

GeoInit == geoMount /\ ccIdle /\ filterIdle /\ restIdle

GeoNext ==
    \/ geoFetch = "pending" /\ \E features \in Worlds, countriesData \in GeoSets :
          loadDataResolved(features, countriesData)
    \/ \E features \in Worlds : loadDataRejected(features)
    \/ \E value \in GeoRegions : setSelectedRegion(value)
    \/ \E value \in GeoRiskCategories : setSelectedRisk(value)
    \/ \E i \in 1..Len(geoCountries) : countryFilterChange(geoCountries[i])
    \/ countryFilterChange(NoCountry)
    \/ zoomToCountry
    \/ clearCountryFilter
    \/ \E p \in 1..Len(enhancedPolygons) : handleCountryClick(enhancedPolygons[p])

\* the map over the worlds and the record sets of the catalog
SpecGeo == GeoInit /\ [][GeoNext]_vars

\* the record sets delivered to loadData while the load handlers are explored
GeoLoadSets == {SubSeq(GeoCatalog, 1, n) : n \in 0..MaxGeoN}

LoadInit == ccMount(FilterSets) /\ geoMount /\ filterIdle /\ restIdle

\* the request of loadCountries is answered
loadCountriesSettled ==
    \/ fetch = "pending" /\ \E data \in FilterSets : loadCountriesResolved(data)
    \/ loadCountriesRejected

\* the requests of loadData are answered
loadDataSettled ==
    \/ geoFetch = "pending" /\ \E features \in Worlds, countriesData \in GeoLoadSets :
          loadDataResolved(features, countriesData)
    \/ \E features \in Worlds : loadDataRejected(features)

LoadNext ==
    \/ propChanges < MaxPropChanges /\ \E newProp \in PropValues : countriesPropChange(newProp)
    \/ loadCountriesSettled
    \/ loadDataSettled

\* the two load handlers, loadCountries being started at mount or by a
\* countries prop that is taken away; the requests of apiClient end within
\* its timeout of 10000 ms, and a request that is never answered is outside
\* this specification
SpecLoad ==
    LoadInit /\ [][LoadNext]_vars /\ WF_vars(loadCountriesSettled) /\ WF_vars(loadDataSettled)

\* the number of slider movements explored next to changes of the prop
MaxNotifyEdits == 1

\* the values of the countries prop: no records, and two record sets that
\* share one region
NotifySets == {SmallSet(pick) : pick \in {<<>>, <<1, 2>>, <<3, 4>>}}

NotifyInit == filterMount(NotifySets) /\ ccIdle /\ geoIdle /\ restIdle

NotifyNext ==
    \/ \E newCountries \in NotifySets : filterCountriesPropChange(newCountries)
    \/ \E value \in SUBSET UniqueRegions(filterCountries) : handleRegionChange(value)
    \/ \E value \in SUBSET UniqueRiskCategories(filterCountries) : handleRiskCategoryChange(value)
    \/ sliderEdits < MaxNotifyEdits /\ \E field \in RangeFields, newValue \in SliderInputs :
          handleSliderChange(field, newValue)
    \/ \E checked \in BOOLEAN : setShowAdvanced(checked)
    \/ clearFilters

\* the filters under a countries prop that the parent replaces
SpecNotify == NotifyInit /\ [][NotifyNext]_vars

PredInit == predMount /\ ccIdle /\ filterIdle /\ geoIdle /\ opIdle /\ tableIdle

\* a request of predictRisk is answered
predictRiskSettled ==
    \/ \E k \in 1..Len(requests), result \in PredictionResponses : predictRiskResolved(k, result)
    \/ \E k \in 1..Len(requests) : predictRiskRejected(k)

PredNext ==
    \/ \E metric \in MetricKeys : \E newValue \in MetricInputs(metric) :
          handleMetricChange(metric, newValue)
    \/ Len(requests) < MaxOutstanding /\ handlePredict
    \/ predictRiskSettled

\* the prediction panel; a request of apiClient ends within its timeout of
\* 10000 ms
SpecPred == PredInit /\ [][PredNext]_vars /\ WF_vars(predictRiskSettled)

TableInit == tableMount(TableSets) /\ ccIdle /\ filterIdle /\ geoIdle /\ opIdle /\ predIdle

TableNext ==
    \/ \E column \in Columns : handleSort(column)
    \/ \E term \in SearchTerms : setSearchTerm(term)

\* the table over the runs of records of the catalog
SpecTable == TableInit /\ [][TableNext]_vars

OpInit == opMount(OpSets) /\ ccIdle /\ filterIdle /\ geoIdle /\ predIdle /\ tableIdle

OpNext ==
    \/ \E f \in OpFilters : applyFilter(f)
    \/ \E m \in Modes : applyComparison(m)
    \/ \E geoCountryName \in OpNames : applyMatch(geoCountryName)

\* filter, aggregate and name match applied to record sets and polygon names
\* of the data model, names missing or empty included
SpecOps == OpInit /\ [][OpNext]_vars

\* ------------------------------------------------------------------------
\* Properties
\* ------------------------------------------------------------------------

\* the full names of a top, bottom or custom view
FullNames(data) == {data[k].fullName : k \in 1..Len(data)}

\* r[0] <= value <= r[1]
Within(value, range) == range[1] <= value /\ value <= range[2]

\* the three clauses of the filter contract for one record
RegionClause(c) == filters.selectedRegions = {} \/ c.Region \in filters.selectedRegions

CategoryClause(c) ==
    filters.selectedRiskCategories = {} \/ c.Risk_Category \in filters.selectedRiskCategories

RangeClause(c) ==
    /\ Within(OrZero(c.CEI) * 100, filters.ceiRange)
    /\ Within(OrZero(c.GCI), filters.gciRange)
    /\ Within(OrZero(c.NCSI), filters.ncsiRange)
    /\ Within(OrZero(c.DDL), filters.ddlRange)
    /\ Within(OrZero(c.Risk_Score) * 100, filters.riskScoreRange)

InFiltered(c) == \E j \in 1..Len(filteredCountries) : filteredCountries[j] = c

\* C1: a record is in the filtered result exactly when its region is
\* selected or no region is, its risk category is selected or none is, and
\* each of its five display-scale values lies within its inclusive range
C1_ConjunctiveFilter ==
    \A i \in 1..Len(filterCountries) :
        InFiltered(filterCountries[i])
            <=> /\ RegionClause(filterCountries[i])
                /\ CategoryClause(filterCountries[i])
                /\ RangeClause(filterCountries[i])

\* a region is selected, a slider was moved, and of two records that both
\* satisfy the region clause one is kept and one is put out by a range
C1_Witness ==
    /\ filters.selectedRegions # {}
    /\ sliderEdits > 0
    /\ Len(filteredCountries) = 1
    /\ \E i \in 1..Len(filterCountries) :
          /\ RegionClause(filterCountries[i])
          /\ CategoryClause(filterCountries[i])
          /\ ~RangeClause(filterCountries[i])

\* C2: in a grouped mode (regions, riskLevels) the aggregate array equals,
\* entry for entry, the one produced the first time the mode was computed
C2_GroupedViewsRepeat ==
    (mode \in GroupedModes /\ Len(countries) > 0)
        => /\ firstData[mode].seen
           /\ comparisonData = firstData[mode].data

\* C3: as long as no new record set arrives, computing a view leaves the
\* countries array as it was
C3_CountriesUnchanged == [][fetch = "idle" => countries' = countries]_vars

\* the risk score a comparison sees
Score(c) == OrZero(c.Risk_Score)

\* score x goes before score y in a descending (ascending) order
GoesBefore(descending, x, y) == IF descending THEN x > y ELSE x < y

\* the number of records that a stable sort places before record i
Rank(cs, i, descending) ==
    Cardinality({j \in 1..Len(cs) :
                    \/ GoesBefore(descending, Score(cs[j]), Score(cs[i]))
                    \/ Score(cs[j]) = Score(cs[i]) /\ j < i})

\* the names of the records of cs with the K smallest ranks, by rank
KeptByRank(cs, rank) ==
    [r \in 1..Min(TopK, Len(cs)) |-> cs[CHOOSE i \in 1..Len(cs) : rank[i] = r - 1].Country]

\* the names of the first K records of the stable sort of cs
FirstK(cs, descending) ==
    CHOOSE names \in {KeptByRank(cs, rank) :
                        rank \in {[i \in 1..Len(cs) |-> Rank(cs, i, descending)]}} : TRUE

NamesOf(data) == [k \in 1..Len(data) |-> data[k].fullName]

\* C4: the top (bottom) view is the first min(10, n) records of the stable
\* descending (ascending) sort of the record set as it was loaded: equal
\* scores keep their original relative order, also across position 10
C4_StableTopBottom ==
    /\ mode = "topCountries" => NamesOf(comparisonData) = FirstK(loaded, TRUE)
    /\ mode = "bottomCountries" => NamesOf(comparisonData) = FirstK(loaded, FALSE)

\* the top view of more than 10 records, the 10th and the 11th of the
\* sorted array having the same score
C4_Witness ==
    /\ mode = "topCountries"
    /\ Len(countries) > TopK
    /\ Len(comparisonData) = TopK
    /\ Score(countries[TopK]) = Score(countries[TopK + 1])
    /\ countries # loaded

\* the records common to the bottom view shown and the top view of the array
CommonTopBottom ==
    FullNames(comparisonData) \cap FullNames(TopCountriesView(SortTop(countries)))

\* C5 as claimed: with at least 20 records the top and bottom views share
\* no record
C5_TopBottomDisjoint ==
    (mode = "bottomCountries" /\ Len(countries) >= 2 * TopK) => CommonTopBottom = {}

\* C5: with at least 20 records, a record in both the top and the bottom
\* view has the same risk score as some other record
C5_CommonOnlyOnTies ==
    (mode = "bottomCountries" /\ Len(countries) >= 2 * TopK)
        => \A name \in CommonTopBottom :
              \E i, j \in 1..Len(countries) :
                 /\ i # j
                 /\ countries[i].Country = name
                 /\ Score(countries[i]) = Score(countries[j])

\* the bottom view of at least 20 records with pairwise distinct scores
C5_Witness ==
    /\ mode = "bottomCountries"
    /\ Len(countries) >= 2 * TopK
    /\ Len(comparisonData) = TopK
    /\ \A i, j \in 1..Len(countries) : i # j => Score(countries[i]) # Score(countries[j])
    /\ CommonTopBottom = {}

\* the records of the region with key `key`, in array order
RegionMembers(cs, key) == SelectSeq(cs, LAMBDA c : PropertyKey(c.Region) = key)

\* the position of the first record of the region
Discovery(cs, key) ==
    CHOOSE i \in 1..Len(cs) :
        /\ PropertyKey(cs[i].Region) = key
        /\ \A j \in 1..(i - 1) : PropertyKey(cs[j].Region) # key

\* the unrounded mean risk score of a region
TrueMean(cs, key) == Frac(SumOf(RegionMembers(cs, key), "Risk_Score"), Len(RegionMembers(cs, key)))

\* C6: the region aggregates are in non-increasing order of the unrounded
\* mean risk score, regions of equal mean in order of discovery
C6_RegionsByTrueMean ==
    (mode = "regions" /\ Len(countries) > 0)
        => \A i, j \in 1..Len(comparisonData) :
              i < j =>
                 LET a == TrueMean(countries, comparisonData[i].name)
                     b == TrueMean(countries, comparisonData[j].name)
                 IN  \/ FracMinus(a, b) > 0
                     \/ /\ FracMinus(a, b) = 0
                        /\ Discovery(countries, comparisonData[i].name)
                              < Discovery(countries, comparisonData[j].name)

\* the sum of the count fields of an aggregate array
CountSum(data) ==
    LET F[k \in 0..Len(data)] == IF k = 0 THEN 0 ELSE F[k - 1] + data[k].count
    IN  F[Len(data)]

\* each entry counts the records of its region, and the counts add up
CountsPartition(data, cs) ==
    /\ CountSum(data) = Len(cs)
    /\ \A k \in 1..Len(data) : data[k].count = Len(RegionMembers(cs, data[k].name))
    /\ \A i \in 1..Len(cs) :
          Cardinality({k \in 1..Len(data) : data[k].name = PropertyKey(cs[i].Region)}) = 1

\* C7: the counts of the region aggregates sum to the number of records and
\* every record, one without a region included, is counted in exactly one
\* aggregate (ComparisonChart and TrendAnalysis)
C7_RegionCountsPartition ==
    /\ mode = "regions" => CountsPartition(comparisonData, countries)
    /\ \A trendData \in {TrendRegionsView(countries)} : CountsPartition(trendData, countries)

\* the regions view, computed again after a top or bottom view reordered
\* the array, of several regions, one of them the region of a record
\* without a region, and one with more than one record
C7_Witness ==
    /\ mode = "regions"
    /\ Len(comparisonData) >= 2
    /\ \E i \in 1..Len(countries) : countries[i].Region = RegionMissing
    /\ \E k \in 1..Len(comparisonData) : comparisonData[k].name = "undefined"
    /\ Len(countries) > Len(comparisonData)
    /\ countries # loaded

\* the records of cs in which the indicator is present
Present(cs, field) == SelectSeq(cs, LAMBDA c : c[field] # NULL)

\* C8: the GCI mean of a region is the sum of the GCI values present
\* divided by the number of records in which GCI is present
C8_MeanOverPresent ==
    (mode = "regions" /\ Len(countries) > 0)
        => \A k \in 1..Len(comparisonData) :
              LET present == Present(RegionMembers(countries, comparisonData[k].name), "GCI")
              IN  Len(present) > 0
                    => comparisonData[k].GCI = ToFixed(SumOf(present, "GCI"), Len(present), 1)

\* the names of a selection are pairwise distinct
DistinctNames(sel) ==
    \A i, j \in 1..Len(sel) : i # j => sel[i].Country # sel[j].Country

\* the selection grows only by one record appended, and only when it has
\* fewer than 8 members and none with the name of the new one
GrowsOnlyWhenAllowed ==
    Len(selectedCountries') > Len(selectedCountries)
        => /\ Len(selectedCountries) < MaxSelected
           /\ Len(selectedCountries') = Len(selectedCountries) + 1
           /\ \A i \in 1..Len(selectedCountries) :
                 selectedCountries[i].Country
                    # selectedCountries'[Len(selectedCountries')].Country

\* C9: the selection never has more than 8 members nor two members of the
\* same name, and an add at 8 members or of a selected name changes nothing
C9_SelectionCapped ==
    /\ [](Len(selectedCountries) <= MaxSelected /\ DistinctNames(selectedCountries))
    /\ [][GrowsOnlyWhenAllowed]_vars
    /\ [][(Len(selectedCountries) = MaxSelected /\ Len(selectedCountries') >= MaxSelected)
            => selectedCountries' = selectedCountries]_vars

\* a full selection after a ninth edit: one add was refused
C9_Witness ==
    /\ Len(selectedCountries) = MaxSelected
    /\ edits = MaxSelected + 1
    /\ Len(countries) > MaxSelected

\* seq without its k-th entry
Without(seq, k) == SubSeq(seq, 1, k - 1) \o SubSeq(seq, k + 1, Len(seq))

\* a change of the selection appends one record, deletes one entry and
\* keeps the others in order, or empties the selection
SelectionStep ==
    selectedCountries' # selectedCountries
        => \/ /\ Len(selectedCountries') = Len(selectedCountries) + 1
              /\ SubSeq(selectedCountries', 1, Len(selectedCountries)) = selectedCountries
           \/ \E k \in 1..Len(selectedCountries) :
                 selectedCountries' = Without(selectedCountries, k)
           \/ selectedCountries' = <<>>

\* C10: the custom view has one entry per selected record in selection
\* order; an accepted add appends, a remove deletes the named entry only
C10_CustomInSelectionOrder ==
    /\ []((mode = "customCountries" /\ Len(countries) > 0)
            => NamesOf(comparisonData) = [k \in 1..Len(selectedCountries) |-> selectedCountries[k].Country])
    /\ [][SelectionStep]_vars

\* a custom view of three records or more whose order is not that of the
\* countries array: the record selected first was removed and added again
C10_Witness ==
    /\ mode = "customCountries"
    /\ Len(selectedCountries) >= 3
    /\ Len(comparisonData) = Len(selectedCountries)
    /\ selectedCountries[1] = countries[2]
    /\ selectedCountries[Len(selectedCountries)] = countries[1]

\* the value of a record that a range of the filter state is compared with
DisplayValue(c, field) ==
    CASE field = "ceiRange"       -> OrZero(c.CEI) * 100
      [] field = "gciRange"       -> OrZero(c.GCI)
      [] field = "ncsiRange"      -> OrZero(c.NCSI)
      [] field = "ddlRange"       -> OrZero(c.DDL)
      [] field = "riskScoreRange" -> OrZero(c.Risk_Score) * 100

\* <<lo, hi>> is the least and the greatest display value of the records
IsObservedRange(range, cs, field) ==
    /\ \E i \in 1..Len(cs) : DisplayValue(cs[i], field) = range[1]
    /\ \E i \in 1..Len(cs) : DisplayValue(cs[i], field) = range[2]
    /\ \A i \in 1..Len(cs) : Within(DisplayValue(cs[i], field), range)

\* C11: clearFilters empties both selections and sets each of the five
\* ranges to the least and greatest display value observed in the records
C11_ClearRestoresObserved ==
    [][clearFilters
         => /\ filters'.selectedRegions = {}
            /\ filters'.selectedRiskCategories = {}
            /\ \A field \in RangeFields :
                  IsObservedRange(filters'[field], filterCountries, field)]_vars

\* C12: in every filter state each of the five ranges has min <= max
C12_RangesOrdered == \A field \in RangeFields : filters[field][1] <= filters[field][2]

\* both selections are empty and each range is the mount-time default or
\* the observed range of the records
FullRangeState ==
    /\ filters.selectedRegions = {}
    /\ filters.selectedRiskCategories = {}
    /\ \A field \in RangeFields :
          \/ filters[field] = <<0, Hundred>>
          \/ Len(filterCountries) > 0 /\ IsObservedRange(filters[field], filterCountries, field)

\* C13: with empty selections and full ranges the filtered result is the
\* input, record for record and in input order (the empty input included)
C13_IdentityLaw == FullRangeState => filteredCountries = filterCountries

\* the state clearFilters produces after a slider had narrowed the result:
\* several records, an observed range that is not the default, all kept
C13_Witness ==
    /\ FullRangeState
    /\ sliderEdits > 0
    /\ Len(filterCountries) >= 2
    /\ filters.gciRange # <<0, Hundred>>
    /\ filters.gciRange[1] < filters.gciRange[2]
    /\ filteredCountries = filterCountries

\* two names are equal up to the case of their letters
SameName(a, b) == Lowered(a) = Lowered(b)

\* the records whose name is `name` up to case
ExactSet(cs, name) == {i \in 1..Len(cs) : SameName(cs[i].Country, name)}

\* the records whose name is, up to case, the alias of the polygon name
AliasSet(cs, name) ==
    IF name \in DOMAIN nameMapping THEN ExactSet(cs, nameMapping[name]) ELSE {}

\* the records whose name contains the polygon name or is contained in it,
\* up to case
PartSet(cs, name) ==
    {i \in 1..Len(cs) :
        \/ includes(Lowered(cs[i].Country), Lowered(name))
        \/ includes(Lowered(name), Lowered(cs[i].Country))}

\* record r is one of the records cs[i], i in S
OneOf(r, cs, S) == r # NoCountry /\ \E i \in S : cs[i] = r

\* the map shows polygons joined with records
Enriched == GeoShown /\ Len(worldData) > 0 /\ Len(geoCountries) > 0

\* C14: the record joined to a polygon is one that matches exactly up to
\* case if there is any, else one that matches the alias of the polygon
\* name if there is any, else one whose name contains the polygon name or
\* is contained in it, else none
C14_ResolutionOrder ==
    Enriched =>
        \A p \in 1..Len(worldData) :
            LET r == enhancedPolygons[p].countryData
            IN  IF ExactSet(geoCountries, worldData[p]) # {}
                THEN OneOf(r, geoCountries, ExactSet(geoCountries, worldData[p]))
                ELSE IF AliasSet(geoCountries, worldData[p]) # {}
                THEN OneOf(r, geoCountries, AliasSet(geoCountries, worldData[p]))
                ELSE IF PartSet(geoCountries, worldData[p]) # {}
                THEN OneOf(r, geoCountries, PartSet(geoCountries, worldData[p]))
                ELSE r = NoCountry

\* a polygon whose exact match comes after a record that matches it in part
C14_Witness ==
    /\ Enriched
    /\ \E p \in 1..Len(worldData) :
          \E i \in ExactSet(geoCountries, worldData[p]) :
             /\ \E j \in PartSet(geoCountries, worldData[p]) :
                   j < i /\ j \notin ExactSet(geoCountries, worldData[p])
             /\ enhancedPolygons[p].countryData = geoCountries[i]

\* C15: the record joined to a polygon is the same for every ordering of
\* the records
C15_OrderIndependent ==
    Enriched =>
        \A p \in 1..Len(worldData) :
            \A perm \in Permutations(1..Len(geoCountries)) :
                getCountryMatch([i \in 1..Len(geoCountries) |-> geoCountries[perm[i]]],
                                worldData[p])
                    = enhancedPolygons[p].countryData

\* the name of the record joined to the polygon "Russian Federation" is "Russia"
RussiaJoined ==
    \A p \in 1..Len(worldData) :
        worldData[p] = "Russian Federation"
            => /\ enhancedPolygons[p].countryData # NoCountry
               /\ enhancedPolygons[p].countryData.Country = "Russia"

HasRussia == \E i \in 1..Len(geoCountries) : geoCountries[i].Country = "Russia"

\* C16 as claimed: whenever a record is named "Russia", the polygon
\* "Russian Federation" is joined to it
C16_RussiaAlias == (Enriched /\ HasRussia) => RussiaJoined

\* C16: when a record is named "Russia", no other record has that name up
\* to case and no record is named "Russian Federation" up to case, the
\* polygon "Russian Federation" is joined to the record "Russia"
C16_RussiaAliasUnlessExact ==
    (/\ Enriched
     /\ HasRussia
     /\ Cardinality(ExactSet(geoCountries, "Russia")) = 1
     /\ ExactSet(geoCountries, "Russian Federation") = {})
        => RussiaJoined

\* the record "Russia" is joined although it is not the first record
C16_Witness ==
    /\ Enriched
    /\ Len(geoCountries) >= 2
    /\ geoCountries[2].Country = "Russia"
    /\ ExactSet(geoCountries, "Russian Federation") = {}
    /\ RussiaJoined
    /\ \E p \in 1..Len(worldData) : worldData[p] = "Russian Federation"

\* no record matches the polygon name at any step
Unmatched(cs, name) ==
    ExactSet(cs, name) = {} /\ AliasSet(cs, name) = {} /\ PartSet(cs, name) = {}

\* the fill colours of the risk categories and of a filtered-out polygon
OtherColours == {"#e74c3c", "#f39c12", "#27ae60", "#95a5a6", "rgba(44, 62, 80, 0.1)"}

\* C17: with polygons and records, a polygon that matches no record is in
\* the enriched set at its place, carries no record and has a fill colour
\* that is no risk colour, not the filtered-out colour, and the colour of no
\* polygon that carries a record
C17_UnmatchedKept ==
    Enriched =>
        /\ Len(enhancedPolygons) = Len(worldData)
        /\ \A p \in 1..Len(worldData) :
              Unmatched(geoCountries, worldData[p])
                 => /\ enhancedPolygons[p].name = worldData[p]
                    /\ enhancedPolygons[p].countryData = NoCountry
                    /\ enhancedPolygons[p].fillColor \notin OtherColours
                    /\ \A q \in 1..Len(enhancedPolygons) :
                          enhancedPolygons[q].countryData # NoCountry
                             => enhancedPolygons[q].fillColor # enhancedPolygons[p].fillColor

\* an unmatched polygon next to a shown and a filtered-out polygon, a
\* region being selected
C17_Witness ==
    /\ Enriched
    /\ selectedRegion # "All"
    /\ \E p \in 1..Len(worldData) : Unmatched(geoCountries, worldData[p])
    /\ \E q \in 1..Len(enhancedPolygons) :
          /\ enhancedPolygons[q].countryData # NoCountry
          /\ enhancedPolygons[q].fillColor = "rgba(44, 62, 80, 0.1)"
    /\ \E q \in 1..Len(enhancedPolygons) :
          /\ enhancedPolygons[q].countryData # NoCountry
          /\ enhancedPolygons[q].fillColor # "rgba(44, 62, 80, 0.1)"

\* C18: once both datasets are loaded, the enriched set has one entry per
\* polygon, in the order of the polygons
C18_OnePerPolygon ==
    GeoShown =>
        /\ Len(enhancedPolygons) = Len(worldData)
        /\ \A p \in 1..Len(worldData) : enhancedPolygons[p].name = worldData[p]

\* C19: while a country filter is set, every polygon joined to another
\* record has the filtered-out treatment
C19_FollowsCountryFilter ==
    (Enriched /\ selectedCountryFilter # NoCountry) =>
        \A p \in 1..Len(enhancedPolygons) :
            (/\ enhancedPolygons[p].countryData # NoCountry
             /\ enhancedPolygons[p].countryData.Country # selectedCountryFilter.Country)
                => enhancedPolygons[p].fillColor = "rgba(44, 62, 80, 0.1)"

\* C20: under a given countries prop the regions view counts the records of
\* the prop
C20_FollowsProp ==
    (propCountries.given /\ Shown /\ mode = "regions")
        => CountsPartition(comparisonData, propCountries.value)

\* C21: when loadData has ended, the world request delivered polygons and
\* no records are stored, the enriched set has one entry per delivered
\* polygon, in order, and every entry carries no record
C21_PartialAvailability ==
    (geoFetch = "idle" /\ Len(worldFetched) > 0 /\ Len(geoCountries) = 0)
        => /\ Len(enhancedPolygons) = Len(worldFetched)
           /\ \A p \in 1..Len(worldFetched) :
                 /\ enhancedPolygons[p].name = worldFetched[p]
                 /\ enhancedPolygons[p].countryData = NoCountry

\* a polygon joined to a record and drawn in the risk treatment
ShownWithRecord(polygon) ==
    polygon.countryData # NoCountry /\ polygon.fillColor # "rgba(44, 62, 80, 0.1)"

\* C22: of two shown polygons joined to records with risk scores in [0, 1],
\* the one with the strictly greater risk score has the strictly greater
\* elevation
C22_ElevationIncreasing ==
    \A p, q \in 1..Len(enhancedPolygons) :
        (/\ ShownWithRecord(enhancedPolygons[p])
         /\ ShownWithRecord(enhancedPolygons[q])
         /\ enhancedPolygons[p].countryData.Risk_Score >= 0
         /\ enhancedPolygons[q].countryData.Risk_Score <= Fx
         /\ enhancedPolygons[p].countryData.Risk_Score < enhancedPolygons[q].countryData.Risk_Score)
            => enhancedPolygons[p].altitude < enhancedPolygons[q].altitude

\* each load handler ends with loading = false
LoadsEnd ==
    /\ (fetch = "pending") ~> (fetch = "idle" /\ ~loading)
    /\ (geoFetch = "pending") ~> (geoFetch = "idle" /\ ~geoLoading)

\* a failed request leaves an error message, an answered one none
ErrorTellsOutcome ==
    /\ [][loadCountriesRejected => error' # NoError]_vars
    /\ [][(\E features \in Worlds : loadDataRejected(features)) => geoError' # NoError]_vars
    /\ [][loadCountriesResolved(loaded') => error' = NoError]_vars
    /\ [][loadDataResolved(worldFetched', recordsFetched') => geoError' = NoError]_vars

\* after an answered request the delivered records are stored
StoredOnSuccess ==
    /\ []((fetch = "idle" /\ error = NoError) => (~loading /\ countries = loaded))
    /\ []((geoFetch = "idle" /\ geoError = NoError)
             => (~geoLoading /\ geoCountries = recordsFetched /\ worldData = worldFetched))

\* after a failed request GeoChart holds no records and no polygons
GeoEmptyOnFailure ==
    []((geoFetch = "idle" /\ geoError # NoError)
          => (~geoLoading /\ Len(geoCountries) = 0 /\ Len(worldData) = 0))

C24_NoException == opOutcome # NoOutcome => opOutcome.result = "returned"

\* the treatment a polygon is drawn with, told by its fill colour
Treatment(polygon) ==
    CASE polygon.fillColor = "#2c3e50"               -> "no-data"
      [] polygon.fillColor = "rgba(44, 62, 80, 0.1)" -> "filtered-out"
      [] OTHER                                       -> "risk"

\* the record passes the three filters of the map as they are set now
PassesMapFilters(r) ==
    /\ selectedRegion = "All" \/ r.Region = selectedRegion
    /\ selectedRisk = "All" \/ r.Risk_Category = selectedRisk
    /\ selectedCountryFilter = NoCountry \/ r.Country = selectedCountryFilter.Country

\* C25: every polygon of the enriched set has the no-data treatment exactly
\* when no record matches its name, the risk treatment exactly when it is
\* joined to a record that passes the region, risk and country filter, and
\* the filtered-out treatment exactly when it is joined to a record that
\* fails one of them
C25_Classification ==
    Enriched =>
        \A p \in 1..Len(enhancedPolygons) :
            \E polygon \in {enhancedPolygons[p]} :
                /\ Treatment(polygon) = "no-data" <=> Unmatched(geoCountries, polygon.name)
                /\ Treatment(polygon) = "risk"
                      <=> (polygon.countryData # NoCountry /\ PassesMapFilters(polygon.countryData))
                /\ Treatment(polygon) = "filtered-out"
                      <=> (polygon.countryData # NoCountry /\ ~PassesMapFilters(polygon.countryData))

\* C26: the value last handed to onFiltersChange is the input records, in
\* input order, that satisfy the filter state as it is now; with the effect
\* run in the render that follows each change, this holds in every state
C26_NotifiedIsCurrent ==
    notified = SelectSeq(filterCountries,
                         LAMBDA c : RegionClause(c) /\ CategoryClause(c) /\ RangeClause(c))

\* the prop was replaced under a region selection made on the earlier
\* records: the selected region does not occur in the records now, and the
\* empty result was delivered
C26_Witness ==
    /\ Len(filterCountries) > 0
    /\ filters.selectedRegions # {}
    /\ filters.selectedRegions \cap UniqueRegions(filterCountries) = {}
    /\ notified = <<>>

\* the place of a record in the array as it was delivered
PlaceLoaded(c) == CHOOSE i \in 1..Len(loaded) : loaded[i] = c

\* C27: whatever views were shown before, the top (bottom) view is the one
\* computed from the records in the order they were delivered, entry for
\* entry, and records of equal risk score stand in the array in the order
\* they were delivered in
C27_HistoryIndependent ==
    /\ mode = "topCountries" => comparisonData = TopCountriesView(SortTop(loaded))
    /\ mode = "bottomCountries" => comparisonData = BottomCountriesView(SortBottom(loaded))
    /\ \A i, j \in 1..Len(countries) :
          (i < j /\ Score(countries[i]) = Score(countries[j]))
             => PlaceLoaded(countries[i]) < PlaceLoaded(countries[j])

\* the bottom view of more than 10 records after the array was sorted in
\* place, records of equal score standing on both sides of position 10
C27_Witness ==
    /\ mode = "bottomCountries"
    /\ Len(countries) > TopK
    /\ countries # loaded
    /\ Score(countries[TopK]) = Score(countries[TopK + 1])
    /\ \E i, j \in 1..Len(loaded) : i < j /\ Score(loaded[i]) > Score(loaded[j])
    /\ \E i, j \in 1..Len(loaded) : i < j /\ Score(loaded[i]) < Score(loaded[j])

\* the polygons of the enriched set that carry a record
Carrying == {p \in 1..Len(enhancedPolygons) : enhancedPolygons[p].countryData # NoCountry}

\* C28: the polygons that carry a record are no more than the records, and
\* no record is carried by two polygons
C28_JoinInjective ==
    /\ Cardinality(Carrying) <= Len(geoCountries)
    /\ \A p, q \in Carrying :
          p # q => enhancedPolygons[p].countryData # enhancedPolygons[q].countryData

\* C29: at most one request is unanswered, and one is exactly while the
\* component loads; every request ends, and loading is false then; an
\* answer replaces the stored prediction and leaves error = null; a failure
\* sets the error message and leaves the stored prediction as it was
C29_RequestProtocol ==
    /\ [](Len(requests) <= 1)
    /\ [](predLoading <=> Len(requests) = 1)
    /\ [](predLoading => predError = NoError)
    /\ predLoading ~> ~predLoading
    /\ [][\A result \in PredictionResponses :
             (\E k \in 1..Len(requests) : predictRiskResolved(k, result))
                => (prediction' = result /\ predError' = NoError /\ ~predLoading')]_vars
    /\ [][(\E k \in 1..Len(requests) : predictRiskRejected(k))
             => (predError' # NoError /\ prediction' = prediction /\ ~predLoading')]_vars

\* a request failed after an earlier one was answered: the message is set
\* and the earlier prediction is still stored, the sliders having been moved
C29_Witness ==
    /\ ~predLoading
    /\ predError # NoError
    /\ prediction # NoPrediction
    /\ metrics # DefaultMetrics
    /\ requests = <<>>

\* C30: handleSort(column) makes the column the active one and sets the
\* direction to 'desc' exactly when the column was active with direction
\* 'asc', to 'asc' otherwise; no step of the table changes the countries
\* prop or the order of its records
C30_SortToggle ==
    /\ [][\A column \in Columns :
             handleSort(column)
                => /\ sortBy' = column
                   /\ sortDirection' \in {"asc", "desc"}
                   /\ sortDirection' = "desc" <=> (sortBy = column /\ sortDirection = "asc")]_vars
    /\ [][tableCountries' = tableCountries]_vars

\* a column other than the initial one is active with direction 'desc', a
\* search term is set, and the rows shown are several records in another
\* order than in the prop
C30_Witness ==
    /\ sortBy = "Risk_Score"
    /\ sortDirection = "desc"
    /\ searchTerm # ""
    /\ Len(tableRows) >= 2
    /\ tableRows # SelectSeq(tableCountries, LAMBDA c : SearchMatches(c, searchTerm))
====
